---- MODULE Spec2Model ----
(***************************************************************************)
(* Synthtax: the parser/serializer of core/parser.py and the interpreter   *)
(* of core/render.py with the operations of core/fx.py.                    *)
(*                                                                         *)
(* Text is a sequence of one-character strings, so that parsing and        *)
(* formatting are computed on characters as the Python code computes them. *)
(* A command dictionary is a function from field names to values: strings  *)
(* (track, file, key) are character sequences, the action is a tag.        *)
(***************************************************************************)
EXTENDS Integers, Sequences, FiniteSets, TLC

VARIABLES
    \* parser / serializer (core/parser.py)
    text,          \* the Synthtax text handed to parse / to_yaml
    pstage,        \* which of the calls of the round trip have returned
    parsed,        \* parse(text)
    yaml_text,     \* to_yaml(text)
    text2,         \* from_yaml(yaml_text)
    parsed2,       \* parse(text2)
    \* interpreter (core/render.py), one apply_commands call
    uploaded_path, \* argument: a path, or None
    preview,       \* argument
    commands,      \* the commands the for loop has taken so far, in order
    context,       \* local: {'bpm': .., 'key': ..}
    tracks,        \* local: track name -> AudioSegment
    order,         \* insertion order of the keys of tracks
    export_file,   \* local: recorded export path, or None
    rstate,        \* "loop" | "raised" | "returned"
    result,        \* what the call returned or raised
    files,         \* the file system: path -> AudioSegment
    \* beat generator (core/fx.py), one generate_beat call
    beat_call,     \* arguments: style, bars, bpm, frame_rate
    beat_stage,    \* the statement the call has got to
    beat_locals,   \* the locals assigned so far: kit, beat
    beat_n,        \* how many iterations of the nested loops are done
    beat_result,   \* what the call returned or raised
    \* operations library (core/fx.py), calls of the transforms
    fx_heap,       \* the AudioSegment objects there are, by identity
    fx_calls,      \* how many transforms have been called
    fx_last,       \* the last call: transform, input, arguments, outcome
    \* several apply_commands calls at once (core/render.py)
    runs,          \* call -> its arguments, its locals, its outcome
    disk,          \* the file system the calls share: path -> AudioSegment
    \* recipe editor (ui/app.py), one export_fn call
    ui_call,       \* arguments: file (its name, or None), recipe
    ui_stage,      \* the statement the call has got to
    ui_cmds,       \* local: cmds
    ui_out,        \* the three outputs returned
    ui_disk,       \* the file system: path -> AudioSegment
    \* prompt studio (app/ui.py), the history kept between actions
    hist_heap,     \* the list objects there are, by identity
    history_state, \* the list the history state holds: its place in hist_heap
    hist_n,        \* how many actions have been done
    out_dir        \* the paths of the files written by the exports

pvars == <<text, pstage, parsed, yaml_text, text2, parsed2>>
rvars == <<uploaded_path, preview, commands, context, tracks, order,
           export_file, rstate, result, files>>
bvars == <<beat_call, beat_stage, beat_locals, beat_n, beat_result>>
fvars == <<fx_heap, fx_calls, fx_last>>
cvars == <<runs, disk>>
uvars == <<ui_call, ui_stage, ui_cmds, ui_out, ui_disk>>
hvars == <<hist_heap, history_state, hist_n, out_dir>>
vars == <<text, pstage, parsed, yaml_text, text2, parsed2,
          uploaded_path, preview, commands, context, tracks, order,
          export_file, rstate, result, files,
          beat_call, beat_stage, beat_locals, beat_n, beat_result,
          fx_heap, fx_calls, fx_last, runs, disk,
          ui_call, ui_stage, ui_cmds, ui_out, ui_disk,
          hist_heap, history_state, hist_n, out_dir>>

\* Python's None, where a string is expected
None == <<"None", "None">>

Min(S) == CHOOSE x \in S : \A y \in S : x <= y
Max(S) == CHOOSE x \in S : \A y \in S : x >= y

(***************************************************************************)
(* Characters and strings                                                  *)
(***************************************************************************)
DigitChars == <<"0", "1", "2", "3", "4", "5", "6", "7", "8", "9">>
IsDigit(c) == c \in {DigitChars[i] : i \in 1..10}
DigitVal(c) == CHOOSE i \in 0..9 : DigitChars[i + 1] = c
LetterChars ==
    {"a", "b", "c", "d", "e", "f", "g", "h", "i", "j", "k", "l", "m",
     "n", "o", "p", "q", "r", "s", "t", "u", "v", "w", "x", "y", "z",
     "A", "B", "C", "D", "E", "F", "G", "H", "I", "J", "K", "L", "M",
     "N", "O", "P", "Q", "R", "S", "T", "U", "V", "W", "X", "Y", "Z"}
IsWord(c) == IsDigit(c) \/ c \in LetterChars \/ c = "_"
IsSpace(c) == c \in {" ", "\t", "\n"}

\* the character classes of the regular expressions of parse
InClass(cls, c) ==
    CASE cls = "s" -> IsSpace(c)                  \* \s
      [] cls = "w" -> IsWord(c)                   \* \w
      [] cls = "d" -> IsDigit(c)                  \* \d
      [] cls = "nq" -> c # "\""                   \* [^"]
      [] cls = "fd" -> IsDigit(c) \/ c = "."      \* [0-9.]

startswith(s, p) == Len(s) >= Len(p) /\ SubSeq(s, 1, Len(p)) = p

RECURSIVE lstrip(_)
lstrip(s) == IF s # <<>> /\ IsSpace(Head(s)) THEN lstrip(Tail(s)) ELSE s

RECURSIVE rstrip(_)
rstrip(s) ==
    IF s # <<>> /\ IsSpace(s[Len(s)]) THEN rstrip(SubSeq(s, 1, Len(s) - 1)) ELSE s

strip(s) == rstrip(lstrip(s))

RECURSIVE splitlines(_)
splitlines(s) ==
    IF s = <<>> THEN <<>>
    ELSE LET nl == {i \in 1..Len(s) : s[i] = "\n"}
         IN  IF nl = {} THEN <<s>>
             ELSE <<SubSeq(s, 1, Min(nl) - 1)>>
                  \o splitlines(SubSeq(s, Min(nl) + 1, Len(s)))

RECURSIVE join(_, _)
join(sep, lines) ==
    IF lines = <<>> THEN <<>>
    ELSE IF Len(lines) = 1 THEN lines[1]
    ELSE lines[1] \o sep \o join(sep, Tail(lines))

(***************************************************************************)
(* Numbers: int(), float(), str() / repr()                                 *)
(***************************************************************************)
RECURSIVE Pow10(_)
Pow10(n) == IF n = 0 THEN 1 ELSE 10 * Pow10(n - 1)

RECURSIVE int_digits(_)
int_digits(s) ==
    IF s = <<>> THEN 0
    ELSE 10 * int_digits(SubSeq(s, 1, Len(s) - 1)) + DigitVal(s[Len(s)])

\* int(s) for s matching -?\d+
int(s) == IF Head(s) = "-" THEN 0 - int_digits(Tail(s)) ELSE int_digits(s)

RECURSIVE str_nat(_)
str_nat(n) ==
    IF n < 10 THEN <<DigitChars[n + 1]>>
    ELSE str_nat(n \div 10) \o <<DigitChars[(n % 10) + 1]>>

\* str(n) of an int
str_int(n) == IF n < 0 THEN <<"-">> \o str_nat(0 - n) ELSE str_nat(n)

\* A float is kept as the decimal it was read from: (-1)^neg * m * 10^(-e),
\* with m not a multiple of 10 unless e = 0 (exact for the short decimals of
\* the model, which a double reads and repr() prints back unchanged).
RECURSIVE Normal(_)
Normal(f) ==
    IF f.m = 0 THEN [neg |-> f.neg, m |-> 0, e |-> 0]
    ELSE IF f.e > 0 /\ f.m % 10 = 0
         THEN Normal([neg |-> f.neg, m |-> f.m \div 10, e |-> f.e - 1])
    ELSE IF f.e < 0
         THEN Normal([neg |-> f.neg, m |-> f.m * 10, e |-> f.e + 1])
    ELSE f

AllDigits(s) == \A i \in 1..Len(s) : IsDigit(s[i])

\* s up to the first c (all of s without one), and s after it
Before(s, c) ==
    IF \E i \in 1..Len(s) : s[i] = c
    THEN SubSeq(s, 1, Min({i \in 1..Len(s) : s[i] = c}) - 1) ELSE s
After(s, c) ==
    IF \E i \in 1..Len(s) : s[i] = c
    THEN SubSeq(s, Min({i \in 1..Len(s) : s[i] = c}) + 1, Len(s)) ELSE <<>>
Has(s, c) == \E i \in 1..Len(s) : s[i] = c

BadFloat == [ok |-> FALSE, v |-> [neg |-> FALSE, m |-> 0, e |-> 0]]

\* sign, integer digits, fraction digits, decimal exponent
float_value(neg, ipart, fpart, ex) ==
    IF AllDigits(ipart) /\ AllDigits(fpart) /\ Len(ipart) + Len(fpart) >= 1
    THEN [ok |-> TRUE,
          v  |-> Normal([neg |-> neg, m |-> int_digits(ipart \o fpart),
                         e |-> Len(fpart) - ex])]
    ELSE BadFloat

\* mantissa text and exponent text (after the e, if any)
float_mant(neg, mant, hasexp, expo) ==
    IF ~hasexp THEN float_value(neg, Before(mant, "."), After(mant, "."), 0)
    ELSE IF expo # <<>> /\ Head(expo) = "-" /\ Tail(expo) # <<>> /\ AllDigits(Tail(expo))
    THEN float_value(neg, Before(mant, "."), After(mant, "."),
                     0 - int_digits(Tail(expo)))
    ELSE IF expo # <<>> /\ Head(expo) = "+" /\ Tail(expo) # <<>> /\ AllDigits(Tail(expo))
    THEN float_value(neg, Before(mant, "."), After(mant, "."), int_digits(Tail(expo)))
    ELSE IF expo # <<>> /\ AllDigits(expo)
    THEN float_value(neg, Before(mant, "."), After(mant, "."), int_digits(expo))
    ELSE BadFloat

float_unsigned(neg, body) ==
    float_mant(neg, Before(body, "e"), Has(body, "e"), After(body, "e"))

\* float(s): [ok, v]; not ok is Python's ValueError.  s is [-]digits[.digits]
\* with at least one digit, optionally followed by e[+-]digits; a second
\* "." is no digit, so "1.2.3" is refused.
float(s) ==
    IF s # <<>> /\ Head(s) = "-" THEN float_unsigned(TRUE, Tail(s))
    ELSE float_unsigned(FALSE, s)

RECURSIVE zfill(_, _)
zfill(s, n) == IF Len(s) >= n THEN s ELSE zfill(<<"0">> \o s, n)

\* repr(f) of a float, which str() and an f-string use: fixed notation for a
\* decimal exponent in -4..15, exponent notation otherwise
repr_float(f) ==
    LET sign == IF f.neg THEN <<"-">> ELSE <<>>
        digs == str_nat(f.m)
        X    == Len(digs) - 1 - f.e
    IN  IF f.m = 0 THEN sign \o <<"0", ".", "0">>
        ELSE IF X >= 0 - 4 /\ X < 16
        THEN sign \o str_nat(f.m \div Pow10(f.e)) \o <<".">>
                  \o (IF f.e = 0 THEN <<"0">>
                      ELSE zfill(str_nat(f.m % Pow10(f.e)), f.e))
        ELSE sign \o <<Head(digs)>>
                  \o (IF Len(digs) > 1 THEN <<".">> \o Tail(digs) ELSE <<>>)
                  \o <<"e">> \o (IF X < 0 THEN <<"-">> ELSE <<"+">>)
                  \o zfill(str_nat(IF X < 0 THEN 0 - X ELSE X), 2)

(***************************************************************************)
(* Regular expressions, as far as parse uses them: literals, greedy        *)
(* repetitions of a character class, an optional character, capture        *)
(* groups and one optional non-capturing group.  In every pattern of parse *)
(* what follows a repetition cannot start with a character of its class,   *)
(* so the longest run is the only match Python's backtracking can return.  *)
(***************************************************************************)
Lit(s) == [t |-> "lit", s |-> s, c |-> "", n |-> 0]
Rep(c, min) == [t |-> "rep", s |-> <<>>, c |-> c, n |-> min]
OptChar(ch) == [t |-> "optc", s |-> <<ch>>, c |-> "", n |-> 0]
Open == [t |-> "open", s |-> <<>>, c |-> "", n |-> 0]
Close == [t |-> "close", s |-> <<>>, c |-> "", n |-> 0]
\* (?: the next n items )?
OptGroup(n) == [t |-> "optgroup", s |-> <<>>, c |-> "", n |-> n]

NoGroup == [some |-> FALSE, s |-> <<>>]
NoMatch == [ok |-> FALSE, pos |-> 0, groups |-> <<>>]

RECURSIVE RunLen(_, _, _)
RunLen(c, s, i) ==
    IF i <= Len(s) /\ InClass(c, s[i]) THEN 1 + RunLen(c, s, i + 1) ELSE 0

\* items k..last of pat matched against s from position i
RECURSIVE MatchFrom(_, _, _, _, _, _, _)
MatchFrom(pat, k, last, s, i, open, groups) ==
    IF k > last THEN [ok |-> TRUE, pos |-> i, groups |-> groups]
    ELSE LET it == pat[k] IN
    IF it.t = "lit"
    THEN IF i + Len(it.s) - 1 <= Len(s) /\ SubSeq(s, i, i + Len(it.s) - 1) = it.s
         THEN MatchFrom(pat, k + 1, last, s, i + Len(it.s), open, groups)
         ELSE NoMatch
    ELSE IF it.t = "rep"
    THEN LET n == RunLen(it.c, s, i)
         IN  IF n >= it.n
             THEN MatchFrom(pat, k + 1, last, s, i + n, open, groups)
             ELSE NoMatch
    ELSE IF it.t = "optc"
    THEN IF i <= Len(s) /\ s[i] = it.s[1]
         THEN MatchFrom(pat, k + 1, last, s, i + 1, open, groups)
         ELSE MatchFrom(pat, k + 1, last, s, i, open, groups)
    ELSE IF it.t = "open"
    THEN MatchFrom(pat, k + 1, last, s, i, i, groups)
    ELSE IF it.t = "close"
    THEN MatchFrom(pat, k + 1, last, s, i, open,
                   Append(groups, [some |-> TRUE, s |-> SubSeq(s, open, i - 1)]))
    ELSE \* optgroup
         LET sub  == MatchFrom(pat, k + 1, k + it.n, s, i, open, groups)
             ncap == Cardinality({j \in (k + 1)..(k + it.n) : pat[j].t = "close"})
         IN  IF sub.ok
             THEN MatchFrom(pat, k + it.n + 1, last, s, sub.pos, open, sub.groups)
             ELSE MatchFrom(pat, k + it.n + 1, last, s, i, open,
                            groups \o [j \in 1..ncap |-> NoGroup])

re_match(pat, s) == MatchFrom(pat, 1, Len(pat), s, 1, 0, <<>>)

re_search(pat, s) ==
    LET hits == {i \in 1..(Len(s) + 1) :
                    MatchFrom(pat, 1, Len(pat), s, i, 0, <<>>).ok}
    IN  IF hits = {} THEN NoMatch
        ELSE MatchFrom(pat, 1, Len(pat), s, Min(hits), 0, <<>>)

\* r'bpm\s*=\s*(\d+)'
RE_set_bpm ==
    <<Lit(<<"b", "p", "m">>), Rep("s", 0), Lit(<<"=">>), Rep("s", 0), Open, Rep("d", 1), Close>>
\* r'key\s*=\s*"([^"]+)"'
RE_set_key ==
    <<Lit(<<"k", "e", "y">>), Rep("s", 0), Lit(<<"=">>), Rep("s", 0), Lit(<<"\"">>),
      Open, Rep("nq", 1), Close, Lit(<<"\"">>)>>
\* r'load\s+(\w+)\s+from\s+"([^"]+)"'
RE_load ==
    <<Lit(<<"l", "o", "a", "d">>), Rep("s", 1), Open, Rep("w", 1), Close, Rep("s", 1),
      Lit(<<"f", "r", "o", "m">>), Rep("s", 1), Lit(<<"\"">>), Open, Rep("nq", 1), Close, Lit(<<"\"">>)>>
\* r'loop\(\s*(\w+),\s*bars\s*=\s*(\d+)\s*\)'
RE_loop ==
    <<Lit(<<"l", "o", "o", "p", "(">>), Rep("s", 0), Open, Rep("w", 1), Close, Lit(<<",">>), Rep("s", 0),
      Lit(<<"b", "a", "r", "s">>), Rep("s", 0), Lit(<<"=">>), Rep("s", 0), Open, Rep("d", 1), Close,
      Rep("s", 0), Lit(<<")">>)>>
\* r'gain\(\s*(\w+),\s*(-?\d+)\s*\)'
RE_gain ==
    <<Lit(<<"g", "a", "i", "n", "(">>), Rep("s", 0), Open, Rep("w", 1), Close, Lit(<<",">>), Rep("s", 0),
      Open, OptChar("-"), Rep("d", 1), Close, Rep("s", 0), Lit(<<")">>)>>
\* r'fadeIn\(\s*(\w+),\s*seconds\s*=\s*(\d+)\s*\)'
RE_fadeIn ==
    <<Lit(<<"f", "a", "d", "e", "I", "n", "(">>), Rep("s", 0), Open, Rep("w", 1), Close, Lit(<<",">>), Rep("s", 0),
      Lit(<<"s", "e", "c", "o", "n", "d", "s">>), Rep("s", 0), Lit(<<"=">>), Rep("s", 0), Open, Rep("d", 1), Close,
      Rep("s", 0), Lit(<<")">>)>>
\* r'fadeOut\(\s*(\w+),\s*seconds\s*=\s*(\d+)\s*\)'
RE_fadeOut ==
    <<Lit(<<"f", "a", "d", "e", "O", "u", "t", "(">>), Rep("s", 0), Open, Rep("w", 1), Close, Lit(<<",">>), Rep("s", 0),
      Lit(<<"s", "e", "c", "o", "n", "d", "s">>), Rep("s", 0), Lit(<<"=">>), Rep("s", 0), Open, Rep("d", 1), Close,
      Rep("s", 0), Lit(<<")">>)>>
\* r'slice\(\s*(\w+),\s*start\s*=\s*(\d+),\s*duration\s*=\s*(\d+)\s*\)'
RE_slice ==
    <<Lit(<<"s", "l", "i", "c", "e", "(">>), Rep("s", 0), Open, Rep("w", 1), Close, Lit(<<",">>), Rep("s", 0),
      Lit(<<"s", "t", "a", "r", "t">>), Rep("s", 0), Lit(<<"=">>), Rep("s", 0), Open, Rep("d", 1), Close,
      Lit(<<",">>), Rep("s", 0), Lit(<<"d", "u", "r", "a", "t", "i", "o", "n">>), Rep("s", 0), Lit(<<"=">>), Rep("s", 0),
      Open, Rep("d", 1), Close, Rep("s", 0), Lit(<<")">>)>>
\* r'reverse\(\s*(\w+)\s*\)'
RE_reverse ==
    <<Lit(<<"r", "e", "v", "e", "r", "s", "e", "(">>), Rep("s", 0), Open, Rep("w", 1), Close, Rep("s", 0), Lit(<<")">>)>>
\* r'pan\(\s*(\w+),\s*amount\s*=\s*(-?[0-9.]+)\s*\)'
RE_pan ==
    <<Lit(<<"p", "a", "n", "(">>), Rep("s", 0), Open, Rep("w", 1), Close, Lit(<<",">>), Rep("s", 0),
      Lit(<<"a", "m", "o", "u", "n", "t">>), Rep("s", 0), Lit(<<"=">>), Rep("s", 0),
      Open, OptChar("-"), Rep("fd", 1), Close, Rep("s", 0), Lit(<<")">>)>>
\* r'normalize\(\s*(\w+)(?:,\s*headroom\s*=\s*([0-9.]+))?\s*\)'
RE_normalize ==
    <<Lit(<<"n", "o", "r", "m", "a", "l", "i", "z", "e", "(">>), Rep("s", 0), Open, Rep("w", 1), Close,
      OptGroup(9), Lit(<<",">>), Rep("s", 0), Lit(<<"h", "e", "a", "d", "r", "o", "o", "m">>), Rep("s", 0), Lit(<<"=">>),
      Rep("s", 0), Open, Rep("fd", 1), Close,
      Rep("s", 0), Lit(<<")">>)>>
\* r'reverb\(\s*(\w+),\s*amount\s*=\s*([0-9.]+)\s*\)'
RE_reverb ==
    <<Lit(<<"r", "e", "v", "e", "r", "b", "(">>), Rep("s", 0), Open, Rep("w", 1), Close, Lit(<<",">>), Rep("s", 0),
      Lit(<<"a", "m", "o", "u", "n", "t">>), Rep("s", 0), Lit(<<"=">>), Rep("s", 0),
      Open, Rep("fd", 1), Close, Rep("s", 0), Lit(<<")">>)>>
\* r'export\(\s*"([^"]+)"\s*\)'
RE_export ==
    <<Lit(<<"e", "x", "p", "o", "r", "t", "(">>), Rep("s", 0), Lit(<<"\"">>), Open, Rep("nq", 1), Close,
      Lit(<<"\"">>), Rep("s", 0), Lit(<<")">>)>>

(***************************************************************************)
(* parse (core/parser.py)                                                  *)
(***************************************************************************)
NoCmd == [action |-> "none"]
Skip == [kind |-> "skip", cmd |-> NoCmd, msg |-> <<>>]
Emit(cmd) == [kind |-> "cmd", cmd |-> cmd, msg |-> <<>>]
\* raise ValueError(msg)
Raise(msg) == [kind |-> "raise", cmd |-> NoCmd, msg |-> msg]

\* float(x) inside parse: the conversion's own ValueError leaves parse
FloatField(cmd, field, s, f) ==
    IF f.ok THEN Emit(cmd @@ (field :> f.v))
    ELSE Raise(<<"c", "o", "u", "l", "d", " ", "n", "o", "t", " ", "c", "o", "n", "v", "e", "r", "t", " ", "s", "t", "r", "i", "n", "g", " ", "t", "o", " ", "f", "l", "o", "a", "t", ":", " ", "'">> \o s \o <<"'">>)
FloatCmd(cmd, field, s) == FloatField(cmd, field, s, float(s))

\* a set branch that fills in the defaults of the fields the line leaves out
parse_set_defaults(bpm_match, key_match) ==
    Emit([action |-> "set",
          bpm |-> IF bpm_match.ok THEN int(bpm_match.groups[1].s) ELSE 120,
          key |-> IF key_match.ok THEN key_match.groups[1].s ELSE <<"C">>])

\* the branches of parse, m being the match object of the branch
parse_set(bpm_match, key_match) ==
    Emit([action |-> "set"]
         @@ (IF bpm_match.ok THEN "bpm" :> int(bpm_match.groups[1].s) ELSE <<>>)
         @@ (IF key_match.ok THEN "key" :> key_match.groups[1].s ELSE <<>>))
parse_load(m, line) ==
    IF ~m.ok THEN Raise(<<"I", "n", "v", "a", "l", "i", "d", " ", "l", "o", "a", "d", " ", "s", "y", "n", "t", "a", "x", ":", " ">> \o line)
    ELSE Emit([action |-> "load", track |-> m.groups[1].s, file |-> m.groups[2].s])
parse_loop(m, line) ==
    IF ~m.ok THEN Raise(<<"I", "n", "v", "a", "l", "i", "d", " ", "l", "o", "o", "p", " ", "s", "y", "n", "t", "a", "x", ":", " ">> \o line)
    ELSE Emit([action |-> "loop", track |-> m.groups[1].s,
               bars |-> int(m.groups[2].s)])
parse_gain(m, line) ==
    IF ~m.ok THEN Raise(<<"I", "n", "v", "a", "l", "i", "d", " ", "g", "a", "i", "n", " ", "s", "y", "n", "t", "a", "x", ":", " ">> \o line)
    ELSE Emit([action |-> "gain", track |-> m.groups[1].s, db |-> int(m.groups[2].s)])
parse_fadeIn(m, line) ==
    IF ~m.ok THEN Raise(<<"I", "n", "v", "a", "l", "i", "d", " ", "f", "a", "d", "e", "I", "n", " ", "s", "y", "n", "t", "a", "x", ":", " ">> \o line)
    ELSE Emit([action |-> "fadeIn", track |-> m.groups[1].s,
               seconds |-> int(m.groups[2].s)])
parse_fadeOut(m, line) ==
    IF ~m.ok THEN Raise(<<"I", "n", "v", "a", "l", "i", "d", " ", "f", "a", "d", "e", "O", "u", "t", " ", "s", "y", "n", "t", "a", "x", ":", " ">> \o line)
    ELSE Emit([action |-> "fadeOut", track |-> m.groups[1].s,
               seconds |-> int(m.groups[2].s)])
parse_slice(m, line) ==
    IF ~m.ok THEN Raise(<<"I", "n", "v", "a", "l", "i", "d", " ", "s", "l", "i", "c", "e", " ", "s", "y", "n", "t", "a", "x", ":", " ">> \o line)
    ELSE Emit([action |-> "slice", track |-> m.groups[1].s,
               start |-> int(m.groups[2].s), duration |-> int(m.groups[3].s)])
parse_reverse(m, line) ==
    IF ~m.ok THEN Raise(<<"I", "n", "v", "a", "l", "i", "d", " ", "r", "e", "v", "e", "r", "s", "e", " ", "s", "y", "n", "t", "a", "x", ":", " ">> \o line)
    ELSE Emit([action |-> "reverse", track |-> m.groups[1].s])
parse_pan(m, line) ==
    IF ~m.ok THEN Raise(<<"I", "n", "v", "a", "l", "i", "d", " ", "p", "a", "n", " ", "s", "y", "n", "t", "a", "x", ":", " ">> \o line)
    ELSE FloatCmd([action |-> "pan", track |-> m.groups[1].s],
                  "amount", m.groups[2].s)
parse_normalize(m, line) ==
    IF ~m.ok THEN Raise(<<"I", "n", "v", "a", "l", "i", "d", " ", "n", "o", "r", "m", "a", "l", "i", "z", "e", " ", "s", "y", "n", "t", "a", "x", ":", " ">> \o line)
    ELSE IF m.groups[2].some
    THEN FloatCmd([action |-> "normalize", track |-> m.groups[1].s],
                  "headroom", m.groups[2].s)
    ELSE Emit([action |-> "normalize", track |-> m.groups[1].s])
parse_reverb(m, line) ==
    IF ~m.ok THEN Raise(<<"I", "n", "v", "a", "l", "i", "d", " ", "r", "e", "v", "e", "r", "b", " ", "s", "y", "n", "t", "a", "x", ":", " ">> \o line)
    ELSE FloatCmd([action |-> "reverb", track |-> m.groups[1].s],
                  "amount", m.groups[2].s)
parse_export(m, line) ==
    IF ~m.ok THEN Raise(<<"I", "n", "v", "a", "l", "i", "d", " ", "e", "x", "p", "o", "r", "t", " ", "s", "y", "n", "t", "a", "x", ":", " ">> \o line)
    ELSE Emit([action |-> "export", file |-> m.groups[1].s])

\* the body of the for loop of parse for one line (already stripped)
parse_line(line) ==
    IF line = <<>> \/ startswith(line, <<"#">>) THEN Skip
    ELSE IF startswith(line, <<"s", "e", "t", "(">>)
    THEN parse_set(re_search(RE_set_bpm, line), re_search(RE_set_key, line))
    ELSE IF startswith(line, <<"l", "o", "a", "d">>) THEN parse_load(re_match(RE_load, line), line)
    ELSE IF startswith(line, <<"l", "o", "o", "p">>) THEN parse_loop(re_match(RE_loop, line), line)
    ELSE IF startswith(line, <<"g", "a", "i", "n">>) THEN parse_gain(re_match(RE_gain, line), line)
    ELSE IF startswith(line, <<"f", "a", "d", "e", "I", "n">>)
    THEN parse_fadeIn(re_match(RE_fadeIn, line), line)
    ELSE IF startswith(line, <<"f", "a", "d", "e", "O", "u", "t">>)
    THEN parse_fadeOut(re_match(RE_fadeOut, line), line)
    ELSE IF startswith(line, <<"s", "l", "i", "c", "e">>) THEN parse_slice(re_match(RE_slice, line), line)
    ELSE IF startswith(line, <<"r", "e", "v", "e", "r", "s", "e">>)
    THEN parse_reverse(re_match(RE_reverse, line), line)
    ELSE IF startswith(line, <<"p", "a", "n">>) THEN parse_pan(re_match(RE_pan, line), line)
    ELSE IF startswith(line, <<"n", "o", "r", "m", "a", "l", "i", "z", "e">>)
    THEN parse_normalize(re_match(RE_normalize, line), line)
    ELSE IF startswith(line, <<"r", "e", "v", "e", "r", "b">>)
    THEN parse_reverb(re_match(RE_reverb, line), line)
    ELSE IF startswith(line, <<"e", "x", "p", "o", "r", "t">>)
    THEN parse_export(re_match(RE_export, line), line)
    ELSE Raise(<<"U", "n", "k", "n", "o", "w", "n", " ", "c", "o", "m", "m", "a", "n", "d", ":", " ">> \o line)

\* the for loop of parse from line k on, cmds being the commands so far and
\* r what the body did with line k
RECURSIVE parse_lines(_, _, _)
\* a loop that keeps only the command of the line it is at
parse_step_last(lines, k, cmds, r) ==
    IF r.kind = "raise" THEN [ok |-> FALSE, commands |-> <<>>, msg |-> r.msg]
    ELSE IF r.kind = "cmd" THEN parse_lines(lines, k + 1, <<r.cmd>>)
    ELSE parse_lines(lines, k + 1, cmds)
parse_step(lines, k, cmds, r) ==
    IF r.kind = "raise" THEN [ok |-> FALSE, commands |-> <<>>, msg |-> r.msg]
    ELSE IF r.kind = "cmd" THEN parse_lines(lines, k + 1, Append(cmds, r.cmd))
    ELSE parse_lines(lines, k + 1, cmds)
parse_lines(lines, k, cmds) ==
    IF k > Len(lines) THEN [ok |-> TRUE, commands |-> cmds, msg |-> <<>>]
    ELSE parse_step(lines, k, cmds, parse_line(strip(lines[k])))

\* parse(text): ok with the commands, or the ValueError raised with its message
parse(t) == parse_lines(splitlines(strip(t)), 1, <<>>)

(***************************************************************************)
(* to_yaml / from_yaml (core/parser.py).  The YAML document is kept as     *)
(* what yaml.safe_dump writes: a list of mappings, each a list of          *)
(* key / scalar pairs sorted by key, a scalar being its type and its text. *)
(***************************************************************************)
\* the keys a command can carry, in the order safe_dump sorts them
SortedKeys ==
    <<"action", "amount", "bars", "bpm", "db", "duration", "file",
      "headroom", "key", "seconds", "start", "track">>
IntFields == {"bars", "bpm", "db", "duration", "seconds", "start"}
FloatFields == {"amount", "headroom"}

\* PyYAML's represent_float: repr(), with ".0" put before a bare exponent
yaml_float_of(r) ==
    IF Has(r, "e") /\ ~Has(r, ".")
    THEN Before(r, "e") \o <<".", "0", "e">> \o After(r, "e")
    ELSE r
yaml_float(f) == yaml_float_of(repr_float(f))

yaml_scalar(cmd, k) ==
    IF k \in IntFields THEN [key |-> k, tag |-> "int", text |-> str_int(cmd[k])]
    ELSE IF k \in FloatFields
    THEN [key |-> k, tag |-> "float", text |-> yaml_float(cmd[k])]
    ELSE [key |-> k, tag |-> "str", text |-> cmd[k]]

\* a dump that writes the keys of a mapping in descending order
yaml_mapping_descending(cmd) ==
    LET keys == SelectSeq(SortedKeys, LAMBDA k : k \in DOMAIN cmd)
    IN  [i \in 1..Len(keys) |-> yaml_scalar(cmd, keys[Len(keys) + 1 - i])]

yaml_mapping(cmd) ==
    LET keys == SelectSeq(SortedKeys, LAMBDA k : k \in DOMAIN cmd)
    IN  [i \in 1..Len(keys) |-> yaml_scalar(cmd, keys[i])]

yaml_safe_dump(cmds) == [i \in 1..Len(cmds) |-> yaml_mapping(cmds[i])]

yaml_value(sc) ==
    IF sc.tag = "int" THEN int(sc.text)
    ELSE IF sc.tag = "float" THEN float(sc.text).v
    ELSE sc.text

RECURSIVE yaml_dict(_)
yaml_dict(mapping) ==
    IF mapping = <<>> THEN <<>>
    ELSE (mapping[1].key :> yaml_value(mapping[1])) @@ yaml_dict(Tail(mapping))

yaml_safe_load(doc) == [i \in 1..Len(doc) |-> yaml_dict(doc[i])]

\* to_yaml(text): ok with the document, or the ValueError parse raised
to_yaml_of(cmds) ==
    IF cmds.ok THEN [ok |-> TRUE, doc |-> yaml_safe_dump(cmds.commands)]
    ELSE [ok |-> FALSE, doc |-> <<>>]
to_yaml(t) == to_yaml_of(parse(t))

\* f"{cmd.get(k)}" for an int field
fmt_get_int(cmd, k) == IF k \in DOMAIN cmd THEN str_int(cmd[k]) ELSE <<"N", "o", "n", "e">>
\* f"{cmd.get(k)}" for a str field
fmt_get_str(cmd, k) == IF k \in DOMAIN cmd THEN cmd[k] ELSE <<"N", "o", "n", "e">>

\* an emission chain with cases for load, loop, gain and export only
from_yaml_cmd_four(cmd) ==
    IF cmd["action"] = "load"
    THEN <<<<"l", "o", "a", "d", " ">> \o cmd["track"] \o <<" ", "f", "r", "o", "m", " ", "\"">> \o cmd["file"] \o <<"\"">>>>
    ELSE IF cmd["action"] = "loop"
    THEN <<<<"l", "o", "o", "p", "(">> \o cmd["track"] \o <<",", " ", "b", "a", "r", "s", "=">> \o str_int(cmd["bars"]) \o <<")">>>>
    ELSE IF cmd["action"] = "gain"
    THEN <<<<"g", "a", "i", "n", "(">> \o cmd["track"] \o <<",", " ">> \o str_int(cmd["db"]) \o <<")">>>>
    ELSE IF cmd["action"] = "export"
    THEN <<<<"e", "x", "p", "o", "r", "t", "(", "\"">> \o cmd["file"] \o <<"\"", ")">>>>
    ELSE <<>>

\* the line from_yaml appends for one command, if any
from_yaml_cmd(cmd) ==
    LET act == IF "action" \in DOMAIN cmd THEN cmd["action"] ELSE "None"
    IN  IF act = "set"
        THEN <<<<"s", "e", "t", "(", "b", "p", "m", "=">> \o fmt_get_int(cmd, "bpm") \o <<",", " ", "k", "e", "y", "=", "\"">>
               \o fmt_get_str(cmd, "key") \o <<"\"", ")">>>>
        ELSE IF act = "load"
        THEN <<<<"l", "o", "a", "d", " ">> \o cmd["track"] \o <<" ", "f", "r", "o", "m", " ", "\"">> \o cmd["file"] \o <<"\"">>>>
        ELSE IF act = "loop"
        THEN <<<<"l", "o", "o", "p", "(">> \o cmd["track"] \o <<",", " ", "b", "a", "r", "s", "=">> \o str_int(cmd["bars"]) \o <<")">>>>
        ELSE IF act = "gain"
        THEN <<<<"g", "a", "i", "n", "(">> \o cmd["track"] \o <<",", " ">> \o str_int(cmd["db"]) \o <<")">>>>
        ELSE IF act = "fadeIn"
        THEN <<<<"f", "a", "d", "e", "I", "n", "(">> \o cmd["track"] \o <<",", " ", "s", "e", "c", "o", "n", "d", "s", "=">>
               \o str_int(cmd["seconds"]) \o <<")">>>>
        ELSE IF act = "fadeOut"
        THEN <<<<"f", "a", "d", "e", "O", "u", "t", "(">> \o cmd["track"] \o <<",", " ", "s", "e", "c", "o", "n", "d", "s", "=">>
               \o str_int(cmd["seconds"]) \o <<")">>>>
        ELSE IF act = "slice"
        THEN <<<<"s", "l", "i", "c", "e", "(">> \o cmd["track"] \o <<",", " ", "s", "t", "a", "r", "t", "=">> \o str_int(cmd["start"])
               \o <<",", " ", "d", "u", "r", "a", "t", "i", "o", "n", "=">> \o str_int(cmd["duration"]) \o <<")">>>>
        ELSE IF act = "reverse"
        THEN <<<<"r", "e", "v", "e", "r", "s", "e", "(">> \o cmd["track"] \o <<")">>>>
        ELSE IF act = "pan"
        THEN <<<<"p", "a", "n", "(">> \o cmd["track"] \o <<",", " ", "a", "m", "o", "u", "n", "t", "=">>
               \o repr_float(cmd["amount"]) \o <<")">>>>
        ELSE IF act = "normalize"
        THEN IF "headroom" \in DOMAIN cmd
             THEN <<<<"n", "o", "r", "m", "a", "l", "i", "z", "e", "(">> \o cmd["track"] \o <<",", " ", "h", "e", "a", "d", "r", "o", "o", "m", "=">>
                    \o repr_float(cmd["headroom"]) \o <<")">>>>
             ELSE <<<<"n", "o", "r", "m", "a", "l", "i", "z", "e", "(">> \o cmd["track"] \o <<")">>>>
        ELSE IF act = "reverb"
        THEN <<<<"r", "e", "v", "e", "r", "b", "(">> \o cmd["track"] \o <<",", " ", "a", "m", "o", "u", "n", "t", "=">>
               \o repr_float(cmd["amount"]) \o <<")">>>>
        ELSE IF act = "export"
        THEN <<<<"e", "x", "p", "o", "r", "t", "(", "\"">> \o cmd["file"] \o <<"\"", ")">>>>
        ELSE <<>>

RECURSIVE from_yaml_lines(_)
from_yaml_lines(data) ==
    IF data = <<>> THEN <<>>
    ELSE from_yaml_cmd(Head(data)) \o from_yaml_lines(Tail(data))

from_yaml(doc) == join(<<"\n">>, from_yaml_lines(yaml_safe_load(doc)))

(***************************************************************************)
(* AudioSegment (pydub), as far as core/fx.py and core/render.py use it:   *)
(* 16-bit samples, interleaved by channel, at a frame rate.                *)
(***************************************************************************)
Seg(fr, ch, samples) == [frame_rate |-> fr, channels |-> ch, samples |-> samples]

Clip(x) == IF x > 32767 THEN 32767 ELSE IF x < 0 - 32768 THEN 0 - 32768 ELSE x
\* int(a / b) for b > 0: towards zero
TruncDiv(a, b) == IF a >= 0 THEN a \div b ELSE 0 - ((0 - a) \div b)
\* round(n / d) for n >= 0, d > 0: Python rounds a half to the even neighbour
RoundDiv(n, d) ==
    IF 2 * (n % d) < d THEN n \div d
    ELSE IF 2 * (n % d) > d THEN (n \div d) + 1
    ELSE IF (n \div d) % 2 = 0 THEN n \div d ELSE (n \div d) + 1

frame_count(seg) == Len(seg.samples) \div seg.channels
\* len(seg): milliseconds
len_ms(seg) == RoundDiv(1000 * frame_count(seg), seg.frame_rate)
\* int(seg.frame_count(ms=ms)) for ms >= 0
frames_of_ms(seg, ms) == (ms * seg.frame_rate) \div 1000
\* the frames [a, b) of seg, counted from 0
Frames(seg, a, b) ==
    Seg(seg.frame_rate, seg.channels,
        SubSeq(seg.samples, a * seg.channels + 1, b * seg.channels))
\* seg[start:end] in milliseconds, 0 <= start
slice_ms(seg, start, end) ==
    Frames(seg, frames_of_ms(seg, IF start < len_ms(seg) THEN start ELSE len_ms(seg)),
                frames_of_ms(seg, IF end < len_ms(seg) THEN end ELSE len_ms(seg)))
\* seg * n
repeat(seg, n) ==
    Seg(seg.frame_rate, seg.channels,
        [i \in 1..(n * Len(seg.samples)) |-> seg.samples[((i - 1) % Len(seg.samples)) + 1]])
\* audioop.mul(data, 2, num / den): floor, then the 16-bit bounds
mul(seg, num, den) ==
    Seg(seg.frame_rate, seg.channels,
        [i \in 1..Len(seg.samples) |-> Clip((seg.samples[i] * num) \div den)])
\* AudioSegment.silent(duration, frame_rate)
silent(duration, fr) == Seg(fr, 1, [i \in 1..((fr * duration) \div 1000) |-> 0])

\* an overlay that grows to hold all of seg2
overlay_longest(seg1, seg2, position) ==
    Seg(seg1.frame_rate, seg1.channels,
        [i \in 1..Max({Len(seg1.samples),
                       frames_of_ms(seg1, position) * seg1.channels
                         + Len(seg2.samples)}) |->
            Clip((IF i <= Len(seg1.samples) THEN seg1.samples[i] ELSE 0)
                 + (IF /\ i > frames_of_ms(seg1, position) * seg1.channels
                       /\ i - frames_of_ms(seg1, position) * seg1.channels
                            <= Len(seg2.samples)
                    THEN seg2.samples[i - frames_of_ms(seg1, position) * seg1.channels]
                    ELSE 0))])

\* seg1.overlay(seg2, position): seg2 added onto seg1 from position (ms) on,
\* cut at the end of seg1; both of one frame rate and channel count
overlay(seg1, seg2, position) ==
    Seg(seg1.frame_rate, seg1.channels,
        [i \in 1..Len(seg1.samples) |->
            IF /\ i > frames_of_ms(seg1, position) * seg1.channels
               /\ i - frames_of_ms(seg1, position) * seg1.channels <= Len(seg2.samples)
            THEN Clip(seg1.samples[i]
                      + seg2.samples[i - frames_of_ms(seg1, position) * seg1.channels])
            ELSE seg1.samples[i]])

\* pydub's db_to_float(db) = 10 ** (db / 20), in thousandths, for the
\* gains of the model
db_to_float_milli(db) ==
    CASE db = 0 -> 1000
      [] db = 6 -> 1995
      [] db = 0 - 3 -> 708
      [] db = 0 - 6 -> 501

(***************************************************************************)
(* core/fx.py                                                              *)
(***************************************************************************)
Ok(seg) == [ok |-> TRUE, seg |-> seg, exc |-> ""]
Raised(exc) == [ok |-> FALSE, seg |-> Seg(0, 1, <<>>), exc |-> exc]

\* the last two lines of loop: target_ms = int(60000 / bpm * 4 * bars)
loop_tile(segment, target_ms) ==
    slice_ms(repeat(segment, TruncDiv(target_ms, len_ms(segment)) + 1), 0, target_ms)

\* loop(segment, bars, bpm): both divisions raise on a zero divisor
loop(segment, bars, bpm) ==
    IF bpm = 0 \/ len_ms(segment) = 0 THEN Raised("ZeroDivisionError")
    ELSE Ok(loop_tile(segment, TruncDiv(240000 * bars, bpm)))

\* gain(segment, db): segment + db
gain(segment, db) == mul(segment, db_to_float_milli(db), 1000)

\* the millisecond whose one-millisecond chunk holds frame k (from 0)
ms_of_frame(seg, k) == (((k + 1) * 1000 + seg.frame_rate - 1) \div seg.frame_rate) - 1

\* fade_in(segment, seconds): segment.fade_in(seconds * 1000), seconds >= 1:
\* a gain step per millisecond from silence (-120 dB, taken as 0) to unity
fade_in(segment, seconds) ==
    Seg(segment.frame_rate, segment.channels,
        [i \in 1..Len(segment.samples) |->
            IF ms_of_frame(segment, (i - 1) \div segment.channels) < seconds * 1000
            THEN (segment.samples[i]
                  * ms_of_frame(segment, (i - 1) \div segment.channels))
                 \div (seconds * 1000)
            ELSE segment.samples[i]])

\* fade_out(segment, seconds): segment.fade_out(seconds * 1000), seconds >= 1:
\* the ramp to silence ends with the segment (for a segment shorter than the
\* ramp, the part of the ramp that falls on it)
fade_out(segment, seconds) ==
    Seg(segment.frame_rate, segment.channels,
        [i \in 1..Len(segment.samples) |->
            IF ms_of_frame(segment, (i - 1) \div segment.channels)
                 >= len_ms(segment) - seconds * 1000
            THEN (segment.samples[i]
                  * (len_ms(segment)
                     - ms_of_frame(segment, (i - 1) \div segment.channels)))
                 \div (seconds * 1000)
            ELSE segment.samples[i]])

\* slice_segment(segment, start_ms, duration_ms)
slice_segment(segment, start_ms, duration_ms) ==
    slice_ms(segment, start_ms, start_ms + duration_ms)

\* reverse(segment), mono
reverse(segment) ==
    Seg(segment.frame_rate, segment.channels,
        [i \in 1..Len(segment.samples) |->
            segment.samples[Len(segment.samples) + 1 - i]])

\* the left and right factors of AudioSegment.pan, in thousandths, for the
\* amounts of the model
pan_factors(amount) ==
    CASE amount = [neg |-> TRUE, m |-> 25, e |-> 2] -> <<1091, 811>>
      [] amount = [neg |-> FALSE, m |-> 25, e |-> 2] -> <<811, 1091>>
      [] amount = [neg |-> TRUE, m |-> 1, e |-> 0] -> <<1413, 0>>
      [] amount = [neg |-> FALSE, m |-> 1, e |-> 0] -> <<0, 1413>>
      [] amount = [neg |-> FALSE, m |-> 0, e |-> 0] -> <<1000, 1000>>

\* pan(segment, amount), mono in, stereo out
pan(segment, amount) ==
    Seg(segment.frame_rate, 2,
        [i \in 1..(2 * Len(segment.samples)) |->
            Clip((segment.samples[(i + 1) \div 2] * pan_factors(amount)[2 - (i % 2)])
                 \div 1000)])

\* segment.max: the largest absolute sample
seg_max(segment) ==
    IF segment.samples = <<>> THEN 0
    ELSE Max({IF segment.samples[i] < 0 THEN 0 - segment.samples[i]
              ELSE segment.samples[i] : i \in 1..Len(segment.samples)})

\* 10 ** (-headroom / 20) in thousandths, for the headrooms of the model
headroom_milli(headroom) ==
    CASE headroom = [neg |-> FALSE, m |-> 0, e |-> 0] -> 1000
      [] headroom = [neg |-> FALSE, m |-> 1, e |-> 1] -> 989
      [] headroom = [neg |-> FALSE, m |-> 5, e |-> 1] -> 944
      [] headroom = [neg |-> FALSE, m |-> 15, e |-> 1] -> 841

\* a normalize to full scale, whatever the headroom
normalize_full(segment, headroom) ==
    mul(segment, (32768 * 1000) \div seg_max(segment), 1000)

\* normalize(segment, headroom) of a segment that is not silent: the gain
\* -max_dBFS - headroom is the factor 32768 / max * 10 ** (-headroom / 20)
normalize(segment, headroom) ==
    mul(segment, (32768 * headroom_milli(headroom)) \div seg_max(segment), 1000)

\* a reverb whose three taps are all attenuated by amount / 2
reverb_sum_flat(samples, k, delay, amount) ==
    samples[k] * 12 * Pow10(amount.e)
    + (IF Len(samples) > delay /\ k > delay
       THEN samples[k - delay] * amount.m * 6 ELSE 0)
    + (IF Len(samples) > delay * 2 /\ k > delay * 2
       THEN samples[k - delay * 2] * amount.m * 6 ELSE 0)
    + (IF Len(samples) > delay * 3 /\ k > delay * 3
       THEN samples[k - delay * 3] * amount.m * 6 ELSE 0)

\* one output sample of reverb, times 12 * 10^e: the sample and the taps
\* i = 1..3 at delay * i, each times amount / (i + 1)
reverb_sum(samples, k, delay, amount) ==
    samples[k] * 12 * Pow10(amount.e)
    + (IF Len(samples) > delay /\ k > delay
       THEN samples[k - delay] * amount.m * 6 ELSE 0)
    + (IF Len(samples) > delay * 2 /\ k > delay * 2
       THEN samples[k - delay * 2] * amount.m * 4 ELSE 0)
    + (IF Len(samples) > delay * 3 /\ k > delay * 3
       THEN samples[k - delay * 3] * amount.m * 3 ELSE 0)

\* the clip to the int16 range and the cast, of a value given as num / den
clip_cast(num, den) ==
    IF num > 32767 * den THEN 32767
    ELSE IF num < (0 - 32768) * den THEN 0 - 32768
    ELSE TruncDiv(num, den)

\* reverb(segment, amount), amount >= 0
reverb(segment, amount) ==
    Seg(segment.frame_rate, segment.channels,
        [k \in 1..Len(segment.samples) |->
            clip_cast(reverb_sum(segment.samples, k,
                                 (3 * segment.frame_rate) \div 100, amount),
                      12 * Pow10(amount.e))])

\* BEAT_PATTERNS
BEAT_PATTERNS ==
    [house |->
        [kick  |-> <<1, 0, 0, 0, 1, 0, 0, 0, 1, 0, 0, 0, 1, 0, 0, 0>>,
         snare |-> <<0, 0, 0, 0, 1, 0, 0, 0, 0, 0, 0, 0, 1, 0, 0, 0>>,
         hat   |-> <<0, 1, 0, 1, 0, 1, 0, 1, 0, 1, 0, 1, 0, 1, 0, 1>>],
     hiphop |->
        [kick  |-> <<1, 0, 0, 0, 0, 0, 1, 0, 0, 0, 0, 1, 0, 0, 1, 0>>,
         snare |-> <<0, 0, 0, 0, 1, 0, 0, 0, 0, 0, 0, 0, 1, 0, 0, 0>>,
         hat   |-> <<0, 1, 0, 0, 1, 0, 0, 1, 0, 1, 0, 0, 1, 0, 0, 1>>],
     breakbeat |->
        [kick  |-> <<1, 0, 0, 1, 0, 0, 1, 0, 1, 0, 0, 1, 0, 1, 0, 0>>,
         snare |-> <<0, 0, 1, 0, 0, 1, 0, 0, 0, 0, 1, 0, 0, 1, 0, 0>>,
         hat   |-> <<0, 1, 1, 1, 0, 1, 1, 1, 0, 1, 1, 1, 0, 1, 1, 1>>]]
\* the order of pattern.items()
Instruments == <<"kick", "snare", "hat">>

\* BEAT_PATTERNS.get(style, BEAT_PATTERNS["house"]); style is a tag here
beat_pattern(style) ==
    IF style \in DOMAIN BEAT_PATTERNS THEN BEAT_PATTERNS[style]
    ELSE BEAT_PATTERNS["house"]

\* _kick, _snare, _hat: a voice of duration_ms at frame_rate.  The waveform
\* (a sine sweep or noise under an exponential envelope, filtered and faded)
\* is not computed: a decaying ramp of the same length stands for it.
drum_voice(frame_rate, duration_ms, peak) ==
    Seg(frame_rate, 1,
        [j \in 1..((frame_rate * duration_ms) \div 1000) |->
            (peak * (((frame_rate * duration_ms) \div 1000) + 1 - j))
            \div ((frame_rate * duration_ms) \div 1000)])

\* _drum_kit(frame_rate)
drum_kit(frame_rate) ==
    [kick  |-> drum_voice(frame_rate, 240, 30000),
     snare |-> drum_voice(frame_rate, 180, 20000),
     hat   |-> drum_voice(frame_rate, 120, 10000)]

\* a position counted from the end of the step instead of its start
beat_position_end(bar_index, step_index, bpm) ==
    ((bar_index * 16 + step_index + 1) * 15000) \div bpm

\* position = int((bar_index * steps_per_bar + step_index) * step_ms), with
\* step_ms = 60000 / bpm * 4 / 16
beat_position(bar_index, step_index, bpm) ==
    ((bar_index * 16 + step_index) * 15000) \div bpm

\* iteration n (from 0) of the three nested loops of generate_beat:
\* instrument n \div (16 * bars), bar (n \div 16) % bars, step n % 16
RECURSIVE beat_loops(_, _, _, _, _, _)
beat_hit(beat, pattern, kit, bars, bpm, n) ==
    IF pattern[Instruments[(n \div (16 * bars)) + 1]][(n % 16) + 1] = 0 THEN beat
    ELSE overlay(beat, kit[Instruments[(n \div (16 * bars)) + 1]],
                 beat_position((n \div 16) % bars, n % 16, bpm))
beat_loops(beat, pattern, kit, bars, bpm, n) ==
    IF n >= 3 * 16 * bars THEN beat
    ELSE beat_loops(beat_hit(beat, pattern, kit, bars, bpm, n),
                    pattern, kit, bars, bpm, n + 1)

\* generate_beat(style, bars, bpm, frame_rate)
generate_beat(style, bars, bpm, frame_rate) ==
    IF bars <= 0 THEN Raised("ValueError")
    ELSE IF bpm = 0 THEN Raised("ZeroDivisionError")
    ELSE Ok(normalize(
              beat_loops(silent(TruncDiv(240000 * bars, bpm) + 5, frame_rate),
                         beat_pattern(style), drum_kit(frame_rate), bars, bpm, 0),
              [neg |-> FALSE, m |-> 15, e |-> 1]))

(***************************************************************************)
(* The parser and serializer as a state machine: one text, on which parse, *)
(* to_yaml, from_yaml and parse again are called in turn.                  *)
(***************************************************************************)
MaxLines == 2

\* the lines a text is made of: every verb of the grammar, well formed and
\* not, a comment, a blank line, an unknown verb and an unknown verb that
\* starts with the letters of a known one
Lines ==
    {<<"s", "e", "t", "(", "b", "p", "m", "=", "1", "0", "0", ",", " ", "k", "e", "y", "=", "\"", "C", " ", "m", "i", "n", "o", "r", "\"", ")">>,
     <<"s", "e", "t", "(", "b", "p", "m", "=", "9", "0", ")">>,
     <<"s", "e", "t", "(", "k", "e", "y", "=", "\"", "A", "m", "\"", ")">>,
     <<"s", "e", "t", "(", "t", "e", "m", "p", "o", "=", "1", ")">>,
     <<"l", "o", "a", "d", " ", "a", " ", "f", "r", "o", "m", " ", "\"", "f", ".", "w", "a", "v", "\"">>,
     <<"l", "o", "a", "d", " ", "a", " ", "\"", "f", ".", "w", "a", "v", "\"">>,
     <<"l", "o", "o", "p", "(", "a", ",", " ", "b", "a", "r", "s", "=", "2", ")">>,
     <<" ", " ", "l", "o", "o", "p", "(", " ", "b", ",", " ", "b", "a", "r", "s", " ", "=", " ", "4", " ", ")", " ", " ">>,
     <<"l", "o", "o", "p", "(", "a", ",", " ", "2", ")">>,
     <<"g", "a", "i", "n", "(", "a", ",", " ", "-", "3", ")">>,
     <<"f", "a", "d", "e", "I", "n", "(", "a", ",", " ", "s", "e", "c", "o", "n", "d", "s", "=", "1", ")">>,
     <<"f", "a", "d", "e", "O", "u", "t", "(", "a", ",", " ", "s", "e", "c", "o", "n", "d", "s", "=", "1", ")">>,
     <<"s", "l", "i", "c", "e", "(", "a", ",", " ", "s", "t", "a", "r", "t", "=", "0", ",", " ", "d", "u", "r", "a", "t", "i", "o", "n", "=", "5", ")">>,
     <<"r", "e", "v", "e", "r", "s", "e", "(", "a", ")">>,
     <<"r", "e", "v", "e", "r", "s", "e", "(", ")">>,
     <<"p", "a", "n", "(", "a", ",", " ", "a", "m", "o", "u", "n", "t", "=", "-", "0", ".", "2", "5", ")">>,
     <<"p", "a", "n", "(", "a", ",", " ", "a", "m", "o", "u", "n", "t", "=", "0", ".", "0", "0", "0", "0", "1", ")">>,
     <<"p", "a", "n", "(", "a", ",", " ", "a", "m", "o", "u", "n", "t", "=", "1", ".", "2", ".", "3", ")">>,
     <<"n", "o", "r", "m", "a", "l", "i", "z", "e", "(", "a", ")">>,
     <<"n", "o", "r", "m", "a", "l", "i", "z", "e", "(", "a", ",", " ", "h", "e", "a", "d", "r", "o", "o", "m", "=", "0", ".", "5", ")">>,
     <<"r", "e", "v", "e", "r", "b", "(", "a", ",", " ", "a", "m", "o", "u", "n", "t", "=", "0", ".", "3", ")">>,
     <<"e", "x", "p", "o", "r", "t", "(", "\"", "o", ".", "w", "a", "v", "\"", ")">>,
     <<"e", "x", "p", "o", "r", "t", "(", "o", ".", "w", "a", "v", ")">>,
     <<"l", "o", "w", "P", "a", "s", "s", "(", "a", ",", " ", "c", "u", "t", "o", "f", "f", "=", "1", "0", "0", "0", ")">>,
     <<"l", "o", "w", "P", "a", "s", "s", "(", "a", ")">>,
     <<"b", "e", "a", "t", "(", "d", ",", " ", "s", "t", "y", "l", "e", "=", "\"", "h", "i", "p", "h", "o", "p", "\"", ",", " ", "b", "a", "r", "s", "=", "3", ")">>,
     <<"b", "e", "a", "t", "(", "g", ",", " ", "b", "a", "r", "s", "=", "2", ")">>,
     <<"#", " ", "n", "o", "t", "e">>,
     <<>>,
     <<"p", "l", "a", "y", "(", "a", ")">>,
     <<"l", "o", "o", "p", "y", "(", "a", ")">>}

Texts ==
    {join(<<"\n">>, ls) : ls \in UNION {[1..n -> Lines] : n \in 0..MaxLines}}

NotCalled == [ok |-> FALSE, commands |-> <<>>, msg |-> <<"n", "o", "t", " ", "c", "a", "l", "l", "e", "d">>]

ParserIdle ==
    /\ text = <<>> /\ pstage = "idle" /\ parsed = NotCalled
    /\ yaml_text = <<>> /\ text2 = <<>> /\ parsed2 = NotCalled

RenderIdle ==
    /\ uploaded_path = None /\ preview = FALSE /\ commands = <<>>
    /\ context = <<>> /\ tracks = <<>> /\ order = <<>>
    /\ export_file = None /\ rstate = "idle" /\ result = None
    /\ files = <<>>

BeatIdle ==
    /\ beat_call = <<>> /\ beat_stage = "idle" /\ beat_locals = <<>>
    /\ beat_n = 0 /\ beat_result = Raised("not returned")

NoCall == [op |-> "none", input |-> 0, a |-> 0, b |-> 0, ok |-> FALSE,
           exc |-> "", out |-> 0]
FxIdle == fx_heap = <<>> /\ fx_calls = 0 /\ fx_last = NoCall
RunsIdle == runs = <<>> /\ disk = <<>>
\* Python's None, where a value of any type is expected
NoResult == [kind |-> "none", value |-> None]
NoOutputs == [audio |-> NoResult, text |-> <<>>, file |-> NoResult]
UiIdle ==
    /\ ui_call = <<>> /\ ui_stage = "idle" /\ ui_cmds = <<>>
    /\ ui_out = NoOutputs /\ ui_disk = <<>>
HistoryIdle ==
    hist_heap = <<>> /\ history_state = 0 /\ hist_n = 0 /\ out_dir = {}

InitParser ==
    /\ text \in Texts
    /\ pstage = "start"
    /\ parsed = NotCalled /\ yaml_text = <<>> /\ text2 = <<>> /\ parsed2 = NotCalled
    /\ RenderIdle
    /\ BeatIdle
    /\ FxIdle
    /\ RunsIdle
    /\ UiIdle
    /\ HistoryIdle

\* cmds = parse(text)
Parse ==
    /\ pstage = "start"
    /\ parsed' = parse(text)
    /\ pstage' = "parsed"
    /\ UNCHANGED <<text, yaml_text, text2, parsed2>>
    /\ UNCHANGED <<rvars, bvars, fvars, cvars, uvars, hvars>>

\* yaml_text = to_yaml(text); the ValueError of parse ends the run
ToYamlReturns(r) ==
    IF r.ok THEN yaml_text' = r.doc /\ pstage' = "dumped"
    ELSE yaml_text' = yaml_text /\ pstage' = "raised"
ToYaml ==
    /\ pstage = "parsed"
    /\ ToYamlReturns(to_yaml(text))
    /\ UNCHANGED <<text, parsed, text2, parsed2>>
    /\ UNCHANGED <<rvars, bvars, fvars, cvars, uvars, hvars>>

\* text2 = from_yaml(yaml_text)
FromYaml ==
    /\ pstage = "dumped"
    /\ text2' = from_yaml(yaml_text)
    /\ pstage' = "emitted"
    /\ UNCHANGED <<text, parsed, yaml_text, parsed2>>
    /\ UNCHANGED <<rvars, bvars, fvars, cvars, uvars, hvars>>

\* parse(text2)
Reparse ==
    /\ pstage = "emitted"
    /\ parsed2' = parse(text2)
    /\ pstage' = "reparsed"
    /\ UNCHANGED <<text, parsed, yaml_text, text2>>
    /\ UNCHANGED <<rvars, bvars, fvars, cvars, uvars, hvars>>

NextParser == Parse \/ ToYaml \/ FromYaml \/ Reparse

SpecParser == InitParser /\ [][NextParser]_vars

(***************************************************************************)
(* apply_commands (core/render.py) as a state machine: one call, a step    *)
(* per command of the for loop, then the mix and the return.  commands is  *)
(* the part of the argument the loop has consumed.                         *)
(***************************************************************************)
MaxCmds == 3

\* the file system before the call: short mono files at 100 frames per second
InitFiles ==
    (<<"x", ".", "w", "a", "v">> :> Seg(100, 1, <<1000, 0 - 2000, 3000, 0 - 4000>>))
    @@ (<<"/", "t", "m", "p", "/", "u", "p", ".", "w", "a", "v">> :> Seg(100, 1, <<500, 600, 700, 800, 900, 1000>>))
    @@ (<<"u", "p", "l", "o", "a", "d", "e", "d">> :> Seg(100, 1, <<0 - 10, 20>>))
    @@ (<<"l", "o", "u", "d", ".", "w", "a", "v">> :> Seg(100, 1, <<32000, 0 - 32000, 5>>))

\* the commands a call is made of: every verb parse or the specification
\* knows, in the shape parse gives a command
Cmds ==
    {[action |-> "set", bpm |-> 2400],
     [action |-> "set", key |-> <<"A", "m">>],
     [action |-> "set", bpm |-> 4800, key |-> <<"G">>],
     [action |-> "load", track |-> <<"a">>, file |-> <<"x", ".", "w", "a", "v">>],
     [action |-> "load", track |-> <<"b">>, file |-> <<"u", "p", "l", "o", "a", "d", "e", "d">>],
     [action |-> "load", track |-> <<"b">>, file |-> <<"x", ".", "w", "a", "v">>],
     [action |-> "load", track |-> <<"a">>, file |-> <<"m", "i", "s", "s", "i", "n", "g", ".", "w", "a", "v">>],
     [action |-> "load", track |-> <<"c">>, file |-> <<"l", "o", "u", "d", ".", "w", "a", "v">>],
     [action |-> "loop", track |-> <<"a">>, bars |-> 1],
     [action |-> "gain", track |-> <<"a">>, db |-> 0 - 6],
     [action |-> "fadeIn", track |-> <<"a">>, seconds |-> 1],
     [action |-> "fadeOut", track |-> <<"a">>, seconds |-> 1],
     [action |-> "slice", track |-> <<"a">>, start |-> 0, duration |-> 20],
     [action |-> "reverse", track |-> <<"a">>],
     [action |-> "pan", track |-> <<"a">>, amount |-> [neg |-> TRUE, m |-> 25, e |-> 2]],
     [action |-> "normalize", track |-> <<"a">>],
     [action |-> "lowPass", track |-> <<"a">>, cutoff |-> 1000],
     [action |-> "reverb", track |-> <<"a">>, amount |-> [neg |-> FALSE, m |-> 5, e |-> 1]],
     [action |-> "beat", track |-> <<"d">>, style |-> "house", bars |-> 1],
     [action |-> "export", file |-> <<"o", ".", "w", "a", "v">>],
     [action |-> "export", file |-> <<"p", ".", "w", "a", "v">>]}
CmdsOf(actions) == {c \in Cmds : c.action \in actions}

\* a str argument that counts as true
Truthy(x) == x # None /\ x # <<>>

Raises(exc) == [kind |-> "raise", value |-> exc]

\* lines 8-10
InitRender ==
    /\ uploaded_path \in {None, <<"/", "t", "m", "p", "/", "u", "p", ".", "w", "a", "v">>}
    /\ preview \in BOOLEAN
    /\ commands = <<>>
    /\ context = [bpm |-> 120, key |-> <<"C">>]
    /\ tracks = <<>>
    /\ order = <<>>
    /\ export_file = None
    /\ rstate = "loop"
    /\ result = NoResult
    /\ files = InitFiles
    /\ ParserIdle
    /\ BeatIdle
    /\ FxIdle
    /\ RunsIdle
    /\ UiIdle
    /\ HistoryIdle

\* the for loop takes cmd
Takes(cmd) ==
    /\ rstate = "loop"
    /\ Len(commands) < MaxCmds
    /\ commands' = Append(commands, cmd)
    /\ UNCHANGED <<uploaded_path, preview>>
    /\ UNCHANGED <<pvars, bvars, fvars, cvars, uvars, hvars>>

\* a Set that resets to its default every field it does not supply
update_reset(ctx, cmd) ==
    [bpm |-> IF "bpm" \in DOMAIN cmd THEN cmd.bpm ELSE 120,
     key |-> IF "key" \in DOMAIN cmd THEN cmd.key ELSE <<"C">>]

\* context.update({k: v for k, v in cmd.items() if k != 'action'})
update(ctx, cmd) ==
    [k \in DOMAIN ctx \cup (DOMAIN cmd \ {"action"}) |->
        IF k \in DOMAIN cmd \ {"action"} THEN cmd[k] ELSE ctx[k]]

\* tracks[track] = seg: a new key goes to the end of the dict
Bind(track, seg) ==
    /\ tracks' = [t \in DOMAIN tracks \cup {track} |->
                    IF t = track THEN seg ELSE tracks[t]]
    /\ order' = IF track \in DOMAIN tracks THEN order ELSE Append(order, track)

\* an exception leaves apply_commands
Propagate(exc) ==
    /\ rstate' = "raised"
    /\ result' = Raises(exc)
    /\ UNCHANGED <<tracks, order>>

\* tracks[cmd['track']] = <r>, r being what the library call did
BindResult(track, r) ==
    IF r.ok THEN Bind(track, r.seg) /\ UNCHANGED <<rstate, result>>
    ELSE Propagate(r.exc)

\* lines 14-15
Set ==
    \E cmd \in CmdsOf({"set"}) :
        /\ Takes(cmd)
        /\ context' = update(context, cmd)
        /\ UNCHANGED <<tracks, order, export_file, rstate, result, files>>

\* a Load that always reads the literal file value
load_path_literal(cmd, up) == cmd.file

\* line 17
load_path(cmd, up) ==
    IF cmd.file = <<"u", "p", "l", "o", "a", "d", "e", "d">> /\ Truthy(up) THEN up ELSE cmd.file

\* AudioSegment.from_file(path)
from_file(path) ==
    IF path \in DOMAIN files THEN Ok(files[path]) ELSE Raised("FileNotFoundError")

\* lines 16-18
Load ==
    \E cmd \in CmdsOf({"load"}) :
        /\ Takes(cmd)
        /\ BindResult(cmd.track, from_file(load_path(cmd, uploaded_path)))
        /\ UNCHANGED <<context, export_file, files>>

\* tracks.get(track)
get(track) == IF track \in DOMAIN tracks THEN tracks[track] ELSE None

\* the body of the four effect branches: if seg is not None (the track is a
\* key of tracks), the track is bound to r, what the library call did
Effect(cmd, r) ==
    /\ IF cmd.track \in DOMAIN tracks THEN BindResult(cmd.track, r)
       ELSE UNCHANGED <<tracks, order, rstate, result>>
    /\ UNCHANGED <<context, export_file, files>>

\* lines 19-22; context always has 'bpm'
Loop ==
    \E cmd \in CmdsOf({"loop"}) :
        /\ Takes(cmd)
        /\ Effect(cmd, loop(get(cmd.track), cmd.bars, context.bpm))

\* lines 23-26
Gain ==
    \E cmd \in CmdsOf({"gain"}) :
        /\ Takes(cmd)
        /\ Effect(cmd, Ok(gain(get(cmd.track), cmd.db)))

\* lines 27-30
FadeIn ==
    \E cmd \in CmdsOf({"fadeIn"}) :
        /\ Takes(cmd)
        /\ Effect(cmd, Ok(fade_in(get(cmd.track), cmd.seconds)))

\* lines 31-34
Reverb ==
    \E cmd \in CmdsOf({"reverb"}) :
        /\ Takes(cmd)
        /\ Effect(cmd, Ok(reverb(get(cmd.track), cmd.amount)))

\* lines 39-44: the tracks overlaid in the order of tracks.values()
RECURSIVE MixFrom(_, _, _, _)
MixFrom(trks, ord, k, mix) ==
    IF k > Len(ord) THEN mix
    ELSE MixFrom(trks, ord, k + 1, overlay(mix, trks[ord[k]], 0))
\* AudioSegment.silent(duration=1000): one second of zero samples at pydub's
\* default of 11025 frames per second, kept as its duration
Silence == [frame_rate |-> 11025, channels |-> 1, silent_ms |-> 1000]
\* a mix that starts from an empty segment when no track is bound
MixOrEmpty(trks, ord) ==
    IF ord # <<>> THEN MixFrom(trks, ord, 2, trks[ord[1]])
    ELSE [frame_rate |-> 11025, channels |-> 1, silent_ms |-> 0]
Mix(trks, ord) ==
    IF ord # <<>> THEN MixFrom(trks, ord, 2, trks[ord[1]])
    ELSE Silence

\* an Export that writes the mix at once instead of recording the path
ExportWrites ==
    \E cmd \in CmdsOf({"export"}) :
        /\ Takes(cmd)
        /\ export_file' = cmd.file
        /\ files' = [p \in DOMAIN files \cup {cmd.file} |->
                        IF p = cmd.file THEN Mix(tracks, order) ELSE files[p]]
        /\ UNCHANGED <<context, tracks, order, rstate, result>>

\* lines 35-36
Export ==
    \E cmd \in CmdsOf({"export"}) :
        /\ Takes(cmd)
        /\ export_file' = cmd.file
        /\ UNCHANGED <<context, tracks, order, rstate, result, files>>

\* the actions no branch of the if / elif chain tests for: the loop goes on
\* to the next command
Handled == {"set", "load", "loop", "gain", "fadeIn", "reverb", "export"}
NoBranch ==
    \E cmd \in Cmds :
        /\ cmd.action \notin Handled
        /\ Takes(cmd)
        /\ UNCHANGED <<context, tracks, order, export_file, rstate, result, files>>

\* a preview that keeps the frame rate and the channels of the mix
PreviewAsMixed(mix) ==
    [frame_rate |-> mix.frame_rate, channels |-> mix.channels, resampled |-> mix]

\* mix.set_frame_rate(22050).set_channels(1): a mono buffer at 22050 frames
\* per second, its samples those of mix converted by audioop.ratecv, which
\* are not computed
Preview(mix) == [frame_rate |-> 22050, channels |-> 1, resampled |-> mix]

\* lines 46-54
ReturnValue(mix) ==
    IF preview THEN [kind |-> "buffer", value |-> Preview(mix)]
    ELSE IF Truthy(export_file) THEN [kind |-> "path", value |-> export_file]
    ELSE [kind |-> "buffer", value |-> mix]
\* an export that is not skipped by a preview
ExportedInPreview(mix) ==
    IF Truthy(export_file)
    THEN [p \in DOMAIN files \cup {export_file} |->
            IF p = export_file THEN mix ELSE files[p]]
    ELSE files

\* mix.export(export_file, format='wav')
Exported(mix) ==
    IF ~preview /\ Truthy(export_file)
    THEN [p \in DOMAIN files \cup {export_file} |->
            IF p = export_file THEN mix ELSE files[p]]
    ELSE files

\* the call ends after any number of commands up to MaxCmds
Return ==
    /\ rstate = "loop"
    /\ rstate' = "returned"
    /\ result' = ReturnValue(Mix(tracks, order))
    /\ files' = Exported(Mix(tracks, order))
    /\ UNCHANGED <<uploaded_path, preview, commands, context, tracks, order,
                   export_file>>
    /\ UNCHANGED <<pvars, bvars, fvars, cvars, uvars, hvars>>

NextRender ==
    Set \/ Load \/ Loop \/ Gain \/ FadeIn \/ Reverb \/ Export \/ NoBranch \/ Return

SpecRender == InitRender /\ [][NextRender]_vars

(***************************************************************************)
(* One call generate_beat(style, bars, bpm, frame_rate) (core/fx.py), a     *)
(* statement at a time.  The frame rate is 100 to keep the buffers short.   *)
(***************************************************************************)
MaxBars == 2

\* the tempos of a call, each with a frame rate at which a step of the grid
\* is a few frames long
BeatTempos ==
    {[bpm |-> 0, frame_rate |-> 100], [bpm |-> 2400, frame_rate |-> 100],
     [bpm |-> 4800, frame_rate |-> 100], [bpm |-> 50000, frame_rate |-> 1000]}

InitBeat ==
    /\ beat_call \in {[style |-> s, bars |-> b, bpm |-> t.bpm,
                        frame_rate |-> t.frame_rate] :
                          s \in {"house", "hiphop", "breakbeat", "trap"},
                          b \in (0 - 1)..MaxBars, t \in BeatTempos}
    /\ beat_stage = "called"
    /\ beat_locals = <<>>
    /\ beat_n = 0
    /\ beat_result = Raised("not returned")
    /\ ParserIdle
    /\ RenderIdle
    /\ FxIdle
    /\ RunsIdle
    /\ UiIdle
    /\ HistoryIdle

\* a check that lets zero bars through
bars_negative(bars) == bars < 0

\* line 130: if bars <= 0
bars_not_positive(bars) == bars <= 0

\* lines 130-131
BeatCheckBars ==
    /\ beat_stage = "called"
    /\ IF bars_not_positive(beat_call.bars)
       THEN beat_stage' = "raised" /\ beat_result' = Raised("ValueError")
       ELSE beat_stage' = "checked" /\ beat_result' = beat_result
    /\ UNCHANGED <<beat_call, beat_locals, beat_n>>
    /\ UNCHANGED <<pvars, rvars, fvars, cvars, uvars, hvars>>

\* lines 133-134: the pattern is looked up, the three voices are synthesized
BeatDrumKit ==
    /\ beat_stage = "checked"
    /\ beat_locals' = ("kit" :> drum_kit(beat_call.frame_rate)) @@ beat_locals
    /\ beat_stage' = "kit"
    /\ UNCHANGED <<beat_call, beat_n, beat_result>>
    /\ UNCHANGED <<pvars, rvars, fvars, cvars, uvars, hvars>>

\* lines 136-139: bar_ms = 60000 / bpm * 4 divides by bpm
BeatBarMs ==
    /\ beat_stage = "kit"
    /\ IF beat_call.bpm = 0
       THEN beat_stage' = "raised" /\ beat_result' = Raised("ZeroDivisionError")
       ELSE beat_stage' = "timed" /\ beat_result' = beat_result
    /\ UNCHANGED <<beat_call, beat_locals, beat_n>>
    /\ UNCHANGED <<pvars, rvars, fvars, cvars, uvars, hvars>>

\* line 141: the output buffer, total_ms + 5 of silence
BeatSilent ==
    /\ beat_stage = "timed"
    /\ beat_locals' =
          ("beat" :> silent(TruncDiv(240000 * beat_call.bars, beat_call.bpm) + 5,
                            beat_call.frame_rate)) @@ beat_locals
    /\ beat_stage' = "loops"
    /\ UNCHANGED <<beat_call, beat_n, beat_result>>
    /\ UNCHANGED <<pvars, rvars, fvars, cvars, uvars, hvars>>

\* lines 143-150: one iteration of the nested loops
BeatOverlay ==
    /\ beat_stage = "loops"
    /\ beat_n < 3 * 16 * beat_call.bars
    /\ beat_locals' =
          [beat_locals EXCEPT !["beat"] =
              beat_hit(@, beat_pattern(beat_call.style), beat_locals["kit"],
                       beat_call.bars, beat_call.bpm, beat_n)]
    /\ beat_n' = beat_n + 1
    /\ UNCHANGED <<beat_call, beat_stage, beat_result>>
    /\ UNCHANGED <<pvars, rvars, fvars, cvars, uvars, hvars>>

\* line 152
BeatNormalize ==
    /\ beat_stage = "loops"
    /\ beat_n >= 3 * 16 * beat_call.bars
    /\ beat_result' = Ok(normalize(beat_locals["beat"],
                                   [neg |-> FALSE, m |-> 15, e |-> 1]))
    /\ beat_stage' = "returned"
    /\ UNCHANGED <<beat_call, beat_locals, beat_n>>
    /\ UNCHANGED <<pvars, rvars, fvars, cvars, uvars, hvars>>

NextBeat ==
    BeatCheckBars \/ BeatDrumKit \/ BeatBarMs \/ BeatSilent \/ BeatOverlay
    \/ BeatNormalize

SpecBeat == InitBeat /\ [][NextBeat]_vars

(***************************************************************************)
(* Calls of the transforms of core/fx.py on the segments a caller holds.    *)
(* fx_heap keeps every AudioSegment object by identity, so that a call can  *)
(* be seen to leave its input as it was.                                    *)
(***************************************************************************)
MaxFx == 2

\* the segments a caller starts with: 40 ms at 100 Hz, four frames at 700 Hz
\* (5.7 ms, which len() rounds to 6), four frames at 2000 Hz (2 ms), one
\* frame at 2000 Hz (which len() rounds to 0) and a loud one
FxBuffers ==
    {Seg(100, 1, <<1000, 0 - 2000, 3000, 0 - 4000>>),
     Seg(700, 1, <<7, 0 - 7, 14, 0 - 14>>),
     Seg(2000, 1, <<100, 200, 0 - 300, 400>>),
     Seg(2000, 1, <<5>>),
     Seg(100, 1, <<30000, 0 - 30000, 20000, 30000, 0, 0, 0, 0, 0, 0 - 32768>>)}

InitFx ==
    /\ fx_heap \in {<<seg>> : seg \in FxBuffers}
    /\ fx_calls = 0
    /\ fx_last = NoCall
    /\ ParserIdle
    /\ RenderIdle
    /\ BeatIdle
    /\ RunsIdle
    /\ UiIdle
    /\ HistoryIdle

\* a transform that writes its result into the storage of its input
SpawnInPlace(heap, input, seg) == Append([heap EXCEPT ![input] = seg], seg)

\* segment._spawn(data): the result is a new AudioSegment object
Spawn(heap, input, seg) == Append(heap, seg)

\* a call of a transform on the segment input with the outcome r
FxCall(op, input, a, b, r) ==
    /\ fx_calls' = fx_calls + 1
    /\ fx_heap' = IF r.ok THEN Spawn(fx_heap, input, r.seg) ELSE fx_heap
    /\ fx_last' = [op |-> op, input |-> input, a |-> a, b |-> b, ok |-> r.ok,
                   exc |-> r.exc, out |-> IF r.ok THEN Len(fx_heap) + 1 ELSE 0]
    /\ UNCHANGED <<pvars, rvars, bvars, cvars, uvars, hvars>>

FxLoop ==
    \E input \in DOMAIN fx_heap, bars \in 0..MaxBars, bpm \in {3600, 4800} :
        /\ fx_calls < MaxFx
        /\ FxCall("loop", input, bars, bpm, loop(fx_heap[input], bars, bpm))

FxGain ==
    \E input \in DOMAIN fx_heap, db \in {0 - 6, 6} :
        /\ fx_calls < MaxFx
        /\ FxCall("gain", input, db, 0, Ok(gain(fx_heap[input], db)))

FxFadeIn ==
    \E input \in DOMAIN fx_heap :
        /\ fx_calls < MaxFx
        /\ FxCall("fade_in", input, 1, 0, Ok(fade_in(fx_heap[input], 1)))

FxFadeOut ==
    \E input \in DOMAIN fx_heap :
        /\ fx_calls < MaxFx
        /\ FxCall("fade_out", input, 1, 0, Ok(fade_out(fx_heap[input], 1)))

FxSlice ==
    \E input \in DOMAIN fx_heap, start_ms \in {0, 10} :
        /\ fx_calls < MaxFx
        /\ FxCall("slice_segment", input, start_ms, 20,
                  Ok(slice_segment(fx_heap[input], start_ms, 20)))

FxReverse ==
    \E input \in DOMAIN fx_heap :
        /\ fx_calls < MaxFx
        /\ FxCall("reverse", input, 0, 0, Ok(reverse(fx_heap[input])))

\* pan, of a mono segment
FxPan ==
    \E input \in DOMAIN fx_heap :
        /\ fx_calls < MaxFx
        /\ fx_heap[input].channels = 1
        /\ FxCall("pan", input, [neg |-> TRUE, m |-> 25, e |-> 2], 0,
                  Ok(pan(fx_heap[input], [neg |-> TRUE, m |-> 25, e |-> 2])))

\* normalize, of a segment that is not silent
FxNormalize ==
    \E input \in DOMAIN fx_heap,
       headroom \in {[neg |-> FALSE, m |-> 0, e |-> 0], [neg |-> FALSE, m |-> 5, e |-> 1]} :
        /\ fx_calls < MaxFx
        /\ seg_max(fx_heap[input]) # 0
        /\ FxCall("normalize", input, headroom, 0,
                  Ok(normalize(fx_heap[input], headroom)))

FxReverb ==
    \E input \in DOMAIN fx_heap,
       amount \in {[neg |-> FALSE, m |-> 5, e |-> 1], [neg |-> FALSE, m |-> 3, e |-> 1]} :
        /\ fx_calls < MaxFx
        /\ FxCall("reverb", input, amount, 0, Ok(reverb(fx_heap[input], amount)))

NextFx ==
    FxLoop \/ FxGain \/ FxFadeIn \/ FxFadeOut \/ FxSlice \/ FxReverse \/ FxPan
    \/ FxNormalize \/ FxReverb

SpecFx == InitFx /\ [][NextFx]_vars

(***************************************************************************)
(* MaxRuns calls of apply_commands (core/render.py) at once, each a thread  *)
(* with its own locals, a command of one call at a time, on one file        *)
(* system.                                                                  *)
(***************************************************************************)
MaxRuns == 2

\* the calls made: commands, uploaded_path, preview
Programs ==
    {[commands |-> <<[action |-> "set", bpm |-> 2400],
                     [action |-> "load", track |-> <<"a">>, file |-> <<"x", ".", "w", "a", "v">>],
                     [action |-> "loop", track |-> <<"a">>, bars |-> 1]>>,
      uploaded_path |-> None, preview |-> FALSE],
     [commands |-> <<[action |-> "load", track |-> <<"b">>, file |-> <<"u", "p", "l", "o", "a", "d", "e", "d">>],
                     [action |-> "export", file |-> <<"x", ".", "w", "a", "v">>]>>,
      uploaded_path |-> <<"/", "t", "m", "p", "/", "u", "p", ".", "w", "a", "v">>, preview |-> FALSE],
     [commands |-> <<[action |-> "load", track |-> <<"a">>, file |-> <<"x", ".", "w", "a", "v">>],
                     [action |-> "gain", track |-> <<"a">>, db |-> 0 - 6],
                     [action |-> "export", file |-> <<"o", ".", "w", "a", "v">>]>>,
      uploaded_path |-> None, preview |-> FALSE],
     [commands |-> <<[action |-> "set", key |-> <<"A", "m">>],
                     [action |-> "loop", track |-> <<"a">>, bars |-> 1],
                     [action |-> "export", file |-> <<"o", ".", "w", "a", "v">>]>>,
      uploaded_path |-> None, preview |-> TRUE],
     [commands |-> <<[action |-> "load", track |-> <<"a">>, file |-> <<"m", "i", "s", "s", "i", "n", "g", ".", "w", "a", "v">>]>>,
      uploaded_path |-> None, preview |-> FALSE]}

\* a call not yet made
NotRun(program) ==
    [commands |-> program.commands, uploaded_path |-> program.uploaded_path,
     preview |-> program.preview, pc |-> 0, context |-> <<>>, tracks |-> <<>>,
     order |-> <<>>, export_file |-> None, state |-> "idle", result |-> NoResult]

InitRuns ==
    /\ runs \in [1..MaxRuns -> {NotRun(program) : program \in Programs}]
    /\ disk = InitFiles
    /\ ParserIdle
    /\ RenderIdle
    /\ BeatIdle
    /\ FxIdle
    /\ UiIdle
    /\ HistoryIdle

\* a context that is one module-level dict, kept from call to call
kept_context(left) ==
    IF left = {} THEN [bpm |-> 120, key |-> <<"C">>] ELSE CHOOSE c \in left : TRUE

\* line 8: context = {'bpm': 120, 'key': 'C'}, whatever contexts the calls
\* made so far have
fresh_context(left) == [bpm |-> 120, key |-> <<"C">>]

\* lines 8-10: the locals of a call
run_call(run, left) ==
    [run EXCEPT !.pc = 1, !.context = fresh_context(left), !.tracks = <<>>,
                !.order = <<>>, !.export_file = None, !.state = "loop"]

\* tracks[track] = <r>, or the exception of r leaves the call
run_bind(run, track, r) ==
    IF r.ok
    THEN [run EXCEPT
            !.tracks = [t \in DOMAIN run.tracks \cup {track} |->
                           IF t = track THEN r.seg ELSE run.tracks[t]],
            !.order = IF track \in DOMAIN run.tracks THEN @ ELSE Append(@, track)]
    ELSE [run EXCEPT !.state = "raised", !.result = Raises(r.exc)]

\* seg = tracks.get(track); if seg is not None: tracks[track] = <r>
run_effect(run, track, r) ==
    IF track \in DOMAIN run.tracks THEN run_bind(run, track, r) ELSE run

\* AudioSegment.from_file(path) on the file system dsk
read_file(dsk, path) ==
    IF path \in DOMAIN dsk THEN Ok(dsk[path]) ELSE Raised("FileNotFoundError")

\* lines 13-36: the branch of cmd
run_branch(run, cmd, dsk) ==
    CASE cmd.action = "set" -> [run EXCEPT !.context = update(@, cmd)]
      [] cmd.action = "load" ->
           run_bind(run, cmd.track, read_file(dsk, load_path(cmd, run.uploaded_path)))
      [] cmd.action = "loop" ->
           run_effect(run, cmd.track,
                      loop(run.tracks[cmd.track], cmd.bars, run.context.bpm))
      [] cmd.action = "gain" ->
           run_effect(run, cmd.track, Ok(gain(run.tracks[cmd.track], cmd.db)))
      [] cmd.action = "fadeIn" ->
           run_effect(run, cmd.track, Ok(fade_in(run.tracks[cmd.track], cmd.seconds)))
      [] cmd.action = "reverb" ->
           run_effect(run, cmd.track, Ok(reverb(run.tracks[cmd.track], cmd.amount)))
      [] cmd.action = "export" -> [run EXCEPT !.export_file = cmd.file]
      [] OTHER -> run

\* lines 12-36: one iteration of the for loop
run_command(run, dsk) ==
    [run_branch(run, run.commands[run.pc], dsk) EXCEPT !.pc = run.pc + 1]

\* lines 46-54: what the call returns, mix being the mix
run_result(run, mix) ==
    IF run.preview THEN [kind |-> "buffer", value |-> Preview(mix)]
    ELSE IF Truthy(run.export_file) THEN [kind |-> "path", value |-> run.export_file]
    ELSE [kind |-> "buffer", value |-> mix]

\* lines 38-54
run_return(run) ==
    [run EXCEPT !.state = "returned",
                !.result = run_result(run, Mix(run.tracks, run.order))]

\* lines 50-51: mix.export(export_file, format='wav')
run_export(run, dsk) ==
    IF ~run.preview /\ Truthy(run.export_file)
    THEN [p \in DOMAIN dsk \cup {run.export_file} |->
            IF p = run.export_file THEN Mix(run.tracks, run.order) ELSE dsk[p]]
    ELSE dsk

\* the contexts of the calls made so far
Contexts == {runs[q].context : q \in {q \in DOMAIN runs : runs[q].state # "idle"}}

RunCall ==
    \E r \in DOMAIN runs :
        /\ runs[r].state = "idle"
        /\ runs' = [runs EXCEPT ![r] = run_call(@, Contexts)]
        /\ UNCHANGED disk
        /\ UNCHANGED <<pvars, rvars, bvars, fvars, uvars, hvars>>

RunCommand ==
    \E r \in DOMAIN runs :
        /\ runs[r].state = "loop"
        /\ runs[r].pc <= Len(runs[r].commands)
        /\ runs' = [runs EXCEPT ![r] = run_command(@, disk)]
        /\ UNCHANGED disk
        /\ UNCHANGED <<pvars, rvars, bvars, fvars, uvars, hvars>>

RunReturn ==
    \E r \in DOMAIN runs :
        /\ runs[r].state = "loop"
        /\ runs[r].pc > Len(runs[r].commands)
        /\ runs' = [runs EXCEPT ![r] = run_return(@)]
        /\ disk' = run_export(runs[r], disk)
        /\ UNCHANGED <<pvars, rvars, bvars, fvars, uvars, hvars>>

NextRuns == RunCall \/ RunCommand \/ RunReturn

SpecRuns == InitRuns /\ [][NextRuns]_vars

(***************************************************************************)
(* The recipe editor (ui/app.py): one export_fn call, from the recipe text *)
(* to the three outputs.                                                   *)
(***************************************************************************)
MaxRecipe == 3

\* the lines a recipe is made of: commands that render, a Load of a file
\* that is not there, an unknown verb, a comment
RecipeLines ==
    {<<"l", "o", "a", "d", " ", "a", " ", "f", "r", "o", "m", " ", "\"", "x", ".", "w", "a", "v", "\"">>,
     <<"l", "o", "a", "d", " ", "b", " ", "f", "r", "o", "m", " ", "\"", "u", "p", "l", "o", "a", "d", "e", "d", "\"">>,
     <<"l", "o", "a", "d", " ", "a", " ", "f", "r", "o", "m", " ", "\"", "f", ".", "w", "a", "v", "\"">>,
     <<"s", "e", "t", "(", "b", "p", "m", "=", "9", "0", ")">>,
     <<"e", "x", "p", "o", "r", "t", "(", "\"", "o", ".", "w", "a", "v", "\"", ")">>,
     <<"#", " ", "n", "o", "t", "e">>,
     <<"p", "l", "a", "y", "(", "a", ")">>}

Recipes ==
    {join(<<"\n">>, ls) : ls \in UNION {[1..n -> RecipeLines] : n \in 0..MaxRecipe}}

InitUi ==
    /\ ui_call \in {[file |-> f, recipe |-> r] :
                      f \in {None, <<"/", "t", "m", "p", "/", "u", "p", ".", "w", "a", "v">>}, r \in Recipes}
    /\ ui_stage = "called"
    /\ ui_cmds = <<>>
    /\ ui_out = NoOutputs
    /\ ui_disk = InitFiles
    /\ ParserIdle
    /\ RenderIdle
    /\ BeatIdle
    /\ FxIdle
    /\ RunsIdle
    /\ HistoryIdle

\* core/render.py lines 12-54: the for loop and what follows it
RECURSIVE run_loop(_, _)
run_loop(run, dsk) ==
    IF run.state # "loop" THEN run
    ELSE IF run.pc > Len(run.commands) THEN run_return(run)
    ELSE run_loop(run_command(run, dsk), dsk)

\* render.apply_commands(commands, uploaded_path, preview) on the file system
\* dsk: what the call returns or raises, and the file system it leaves
apply_commands_on(run, dsk) ==
    [result |-> run.result,
     disk |-> IF run.state = "returned" THEN run_export(run, dsk) ELSE dsk]
apply_commands(cmds, up, prev, dsk) ==
    apply_commands_on(run_loop(run_call(NotRun([commands |-> cmds,
                                                uploaded_path |-> up,
                                                preview |-> prev]), {}), dsk),
                      dsk)

\* str(e) of an exception of the interpreter: the text is stood for by the
\* name of the class
exception_text(exc) ==
    CASE exc = "FileNotFoundError" -> <<"F", "i", "l", "e", "N", "o", "t", "F", "o", "u", "n", "d", "E", "r", "r", "o", "r">>
      [] exc = "ZeroDivisionError" -> <<"Z", "e", "r", "o", "D", "i", "v", "i", "s", "i", "o", "n", "E", "r", "r", "o", "r">>
      [] OTHER -> <<"E", "x", "c", "e", "p", "t", "i", "o", "n">>

\* line 126: return None, f"Error: {e}", None
ExportError(msg) ==
    [audio |-> NoResult, text |-> <<"E", "r", "r", "o", "r", ":", " ">> \o msg, file |-> NoResult]

\* line 124: return None, recipe, output_path
ExportOutputs(recipe, output_path) ==
    [audio |-> NoResult, text |-> recipe, file |-> output_path]

\* line 122, and lines 125-126 when parse raises
ExportFnParsed(r) ==
    IF r.ok
    THEN /\ ui_cmds' = r.commands
         /\ ui_stage' = "parsed"
         /\ UNCHANGED ui_out
    ELSE /\ ui_out' = ExportError(r.msg)
         /\ ui_stage' = "returned"
         /\ UNCHANGED ui_cmds
ExportFnParse ==
    /\ ui_stage = "called"
    /\ ExportFnParsed(parse(ui_call.recipe))
    /\ UNCHANGED <<ui_call, ui_disk>>
    /\ UNCHANGED <<pvars, rvars, bvars, fvars, cvars, hvars>>

\* lines 123-124, and lines 125-126 when apply_commands raises
ExportFnRendered(a) ==
    /\ ui_out' = IF a.result.kind = "raise"
                 THEN ExportError(exception_text(a.result.value))
                 ELSE ExportOutputs(ui_call.recipe, a.result)
    /\ ui_disk' = a.disk
ExportFnRender ==
    /\ ui_stage = "parsed"
    /\ ExportFnRendered(apply_commands(ui_cmds, ui_call.file, FALSE, ui_disk))
    /\ ui_stage' = "returned"
    /\ UNCHANGED <<ui_call, ui_cmds>>
    /\ UNCHANGED <<pvars, rvars, bvars, fvars, cvars, hvars>>

NextUi == ExportFnParse \/ ExportFnRender

SpecUi == InitUi /\ [][NextUi]_vars

(***************************************************************************)
(* The prompt studio (app/ui.py): the Preview and Export buttons and the   *)
(* history they keep.  A list is an object of hist_heap, so that a change  *)
(* made to a list in place is seen by whoever holds it.                    *)
(***************************************************************************)
MAX_HISTORY == 6
MaxActions == 7

\* the values of the controls when a button is pressed: prompt and bars vary,
\* bpm, hat_label, pad_label, reverb, gain_db, normalize and mix_name are
\* kept at one value
Settings ==
    {[prompt |-> <<" ", "d", "u", "s", "k", " ">>, bars |-> 4],
     [prompt |-> <<" ", " ">>, bars |-> 8]}
DEFAULT_BPM == 120

\* line 526: history_state = gr.State([])
InitHistory ==
    /\ hist_heap = << <<>> >>
    /\ history_state = 1
    /\ hist_n = 0
    /\ out_dir = {}
    /\ ParserIdle
    /\ RenderIdle
    /\ BeatIdle
    /\ FxIdle
    /\ RunsIdle
    /\ UiIdle

\* app/engine.py lines 162-168: len(track) of build_track, grid being 16,
\* for a bpm that divides 240000
track_ms(bpm, bars) == TruncDiv(240000 * bars, bpm)

\* lines 347-349: f"{seconds:.1f}s", for a duration that is not half way
\* between two tenths of a second
format_duration_ms(duration_ms) ==
    str_nat(RoundDiv(Max({duration_ms, 0}), 100) \div 10) \o <<".">>
    \o str_nat(RoundDiv(Max({duration_ms, 0}), 100) % 10) \o <<"s">>

\* lines 368-380
history_entry(prompt, bpm, hat_label, pad_label, bars, reverb_on, gain_db, normalize_on, duration_ms, action) ==
    [title |-> IF strip(prompt) # <<>> THEN strip(prompt) ELSE <<"U", "n", "t", "i", "t", "l", "e", "d", " ", "m", "i", "x">>,
     action |-> action,
     bpm |-> bpm,
     hat |-> hat_label,
     pad |-> pad_label,
     bars |-> bars,
     reverb |-> reverb_on,
     gain |-> gain_db,
     normalize |-> normalize_on,
     duration |-> format_duration_ms(duration_ms)]

\* entries = history: the list itself, not a copy of it
list_alias(heap, history) == [heap |-> heap, ref |-> history]

\* line 367: list(history or []), a new list of the same elements
list_copy(heap, history) ==
    [heap |-> Append(heap, heap[history]), ref |-> Len(heap) + 1]

\* line 381: entries.insert(0, entry), in place
list_insert(h, entry) ==
    [heap |-> [h.heap EXCEPT ![h.ref] = <<entry>> \o @], ref |-> h.ref]

\* line 382: entries[:n], a new list
list_slice(h, n) ==
    [heap |-> Append(h.heap,
                     SubSeq(h.heap[h.ref], 1, Min({n, Len(h.heap[h.ref])}))),
     ref |-> Len(h.heap) + 1]

\* lines 352-382
update_history(heap, history, entry) ==
    list_slice(list_insert(list_copy(heap, history), entry), MAX_HISTORY)

\* lines 407-411, for a name of lower-case letters and digits joined by
\* single hyphens, which the substitution and the strips leave as it is
safe_filename(name) ==
    IF name = <<>> THEN <<"s", "y", "n", "t", "h", "t", "a", "x", "-", "m", "i", "x", ".", "w", "a", "v">> ELSE name \o <<".", "w", "a", "v">>

\* os.path.splitext(filename): the place of the last dot
last_dot(filename) == Max({0} \cup {i \in DOMAIN filename : filename[i] = "."})

\* lines 414-424: the first of directory/stem.ext, directory/stem-1.ext,
\* directory/stem-2.ext .. that is not there
output_candidate(directory, filename, index) ==
    directory \o <<"/">> \o SubSeq(filename, 1, last_dot(filename) - 1) \o <<"-">>
    \o str_nat(index) \o SubSeq(filename, last_dot(filename), Len(filename))
unique_output_path(directory, filename, there) ==
    IF directory \o <<"/">> \o filename \notin there
    THEN directory \o <<"/">> \o filename
    ELSE output_candidate(directory, filename,
             Min({i \in 1..(Cardinality(there) + 1) :
                     output_candidate(directory, filename, i) \notin there}))

\* the outputs of a handler go to the history state
HistoryReturned(h) ==
    /\ hist_heap' = h.heap
    /\ history_state' = h.ref
    /\ hist_n' = hist_n + 1

\* lines 427-465: the Preview button
PreviewFromPrompt ==
    \E s \in Settings :
        /\ hist_n < MaxActions
        /\ HistoryReturned(
              update_history(hist_heap, history_state,
                  history_entry(s.prompt, DEFAULT_BPM, <<"S", "t", "e", "a", "d", "y", " ", "d", "r", "i", "v", "e", "r">>,
                                <<"B", "r", "i", "g", "h", "t", " ", "s", "a", "w">>, s.bars, TRUE,
                                [neg |-> TRUE, m |-> 3, e |-> 0], FALSE,
                                track_ms(DEFAULT_BPM, s.bars), "Previewed")))
        /\ UNCHANGED out_dir
        /\ UNCHANGED <<pvars, rvars, bvars, fvars, cvars, uvars>>

\* lines 468-502: the Export button, mix_name being empty
ExportFromPrompt ==
    \E s \in Settings :
        /\ hist_n < MaxActions
        /\ out_dir' = out_dir \cup
                {unique_output_path(<<"o", "u", "t">>, safe_filename(<<>>), out_dir)}
        /\ HistoryReturned(
              update_history(hist_heap, history_state,
                  history_entry(s.prompt, DEFAULT_BPM, <<"S", "t", "e", "a", "d", "y", " ", "d", "r", "i", "v", "e", "r">>,
                                <<"B", "r", "i", "g", "h", "t", " ", "s", "a", "w">>, s.bars, TRUE,
                                [neg |-> TRUE, m |-> 3, e |-> 0], FALSE,
                                track_ms(DEFAULT_BPM, s.bars), "Exported")))
        /\ UNCHANGED <<pvars, rvars, bvars, fvars, cvars, uvars>>

NextHistory == PreviewFromPrompt \/ ExportFromPrompt

SpecHistory == InitHistory /\ [][NextHistory]_vars

(***************************************************************************)
(* Properties of the parser and serializer (under SpecParser)              *)
(***************************************************************************)

\* C1: round-trip law: for every text parse accepts,
\* parse(from_yaml(to_yaml(text))) equals parse(text) as a command sequence.
C1_RoundTrip == pstage = "reparsed" => parsed2 = parsed

\* the verbs of the grammar
KnownVerbs ==
    {<<"s", "e", "t">>, <<"l", "o", "a", "d">>, <<"l", "o", "o", "p">>, <<"g", "a", "i", "n">>, <<"f", "a", "d", "e", "I", "n">>, <<"f", "a", "d", "e", "O", "u", "t">>, <<"s", "l", "i", "c", "e">>,
     <<"r", "e", "v", "e", "r", "s", "e">>, <<"p", "a", "n">>, <<"n", "o", "r", "m", "a", "l", "i", "z", "e">>, <<"l", "o", "w", "P", "a", "s", "s">>, <<"r", "e", "v", "e", "r", "b">>, <<"b", "e", "a", "t">>,
     <<"e", "x", "p", "o", "r", "t">>}
\* the leading token of a line: its longest prefix of word characters
LeadingToken(line) == SubSeq(line, 1, RunLen("w", line, 1))
\* lines of the model that start with a verb and are not of its grammar: a
\* set without bpm or key, a load without from, a loop without bars=, a
\* reverse without track, a pan whose amount is no number, an export without
\* quotes, a lowPass without cutoff
Malformed ==
    {<<"s", "e", "t", "(", "t", "e", "m", "p", "o", "=", "1", ")">>, <<"l", "o", "a", "d", " ", "a", " ", "\"", "f", ".", "w", "a", "v", "\"">>, <<"l", "o", "o", "p", "(", "a", ",", " ", "2", ")">>, <<"r", "e", "v", "e", "r", "s", "e", "(", ")">>,
     <<"p", "a", "n", "(", "a", ",", " ", "a", "m", "o", "u", "n", "t", "=", "1", ".", "2", ".", "3", ")">>, <<"e", "x", "p", "o", "r", "t", "(", "o", ".", "w", "a", "v", ")">>, <<"l", "o", "w", "P", "a", "s", "s", "(", "a", ")">>}
\* s occurs in t
Occurs(s, t) == \E k \in 0..(Len(t) - Len(s)) : SubSeq(t, k + 1, k + Len(s)) = s
\* msg is some text naming verb, followed by line
NamesVerbAndLine(msg, verb, line) ==
    /\ Len(msg) >= Len(line)
    /\ SubSeq(msg, Len(msg) - Len(line) + 1, Len(msg)) = line
    /\ Occurs(verb, SubSeq(msg, 1, Len(msg) - Len(line)))
\* the lines of the text as the loop of parse sees them
StrippedLines(t) == [k \in 1..Len(splitlines(strip(t))) |-> strip(splitlines(strip(t))[k])]
\* line k is malformed and parse gets to it
FirstMalformed(lines, k) ==
    /\ lines[k] \in Malformed
    /\ LeadingToken(lines[k]) \in KnownVerbs
    /\ \A j \in 1..(k - 1) : parse_line(lines[j]).kind # "raise"

\* C10: a line whose leading token is a known verb but which does not match
\* the verb's grammar makes parse fail with a syntax error that names the verb
\* and contains the line; no command sequence is returned.
C10_SyntaxError ==
    pstage \notin {"idle", "start"} =>
        \A k \in 1..Len(StrippedLines(text)) :
            FirstMalformed(StrippedLines(text), k) =>
                /\ ~parsed.ok
                /\ NamesVerbAndLine(parsed.msg, LeadingToken(StrippedLines(text)[k]),
                                    StrippedLines(text)[k])

(***************************************************************************)
(* Properties of apply_commands (under SpecRender).  A step of the for     *)
(* loop is a step that lengthens commands; the command it takes is the     *)
(* last one of commands'.                                                  *)
(***************************************************************************)
Taken == commands'[Len(commands')]
StepOf(actions) ==
    /\ rstate = "loop"
    /\ Len(commands') = Len(commands) + 1
    /\ Taken.action \in actions

\* the effect verbs, and those the library has a function for
EffectVerbs ==
    {"loop", "gain", "fadeIn", "fadeOut", "slice", "reverse", "pan", "normalize",
     "lowPass", "reverb"}
LibraryVerbs == EffectVerbs \ {"lowPass"}

\* the library's transform for an effect command, on seg at tempo bpm
Transform(cmd, seg, bpm) ==
    CASE cmd.action = "loop" -> loop(seg, cmd.bars, bpm).seg
      [] cmd.action = "gain" -> gain(seg, cmd.db)
      [] cmd.action = "fadeIn" -> fade_in(seg, cmd.seconds)
      [] cmd.action = "fadeOut" -> fade_out(seg, cmd.seconds)
      [] cmd.action = "slice" -> slice_segment(seg, cmd.start, cmd.duration)
      [] cmd.action = "reverse" -> reverse(seg)
      [] cmd.action = "pan" -> pan(seg, cmd.amount)
      [] cmd.action = "normalize" ->
            normalize(seg, IF "headroom" \in DOMAIN cmd THEN cmd.headroom
                           ELSE [neg |-> FALSE, m |-> 1, e |-> 1])
      [] cmd.action = "reverb" -> reverb(seg, cmd.amount)

\* the track table with track bound to seg and nothing else changed
Rebound(trks, track, seg) ==
    [t \in DOMAIN trks \cup {track} |-> IF t = track THEN seg ELSE trks[t]]

\* C2: for each effect verb, when the command's track is bound, its binding
\* after the command is the library's transform of its binding before, and no
\* other binding changes.  (lowPass has no library function to compare with
\* and is left out.)
C2_EffectsApplied ==
    [][(StepOf(LibraryVerbs) /\ Taken.track \in DOMAIN tracks) =>
          tracks' = Rebound(tracks, Taken.track,
                            Transform(Taken, tracks[Taken.track], context.bpm))]_vars

\* the tracks named by the Load and Beat commands executed so far (the
\* command that raised has bound nothing)
NamedByLoadOrBeat ==
    {commands[i].track :
        i \in {j \in 1..Len(commands) :
                  /\ commands[j].action \in {"load", "beat"}
                  /\ ~(rstate = "raised" /\ j = Len(commands))}}

\* C3: an effect command whose track is not bound raises nothing and changes
\* neither the track table, the context nor the recorded export path; hence
\* the bound tracks are exactly those named by executed Load and Beat commands.
C3_UnboundNoOp ==
    [][/\ (StepOf(EffectVerbs) /\ Taken.track \notin DOMAIN tracks) =>
            /\ rstate' = "loop"
            /\ tracks' = tracks
            /\ context' = context
            /\ export_file' = export_file
       /\ (rstate' # "idle") => (DOMAIN tracks' = NamedByLoadOrBeat')]_vars

\* C4: a Beat command binds its track to generate_beat(style, bars, bpm), bpm
\* being the context's bpm when the command is executed (at generate_beat's
\* default frame rate).
C4_BeatBinds ==
    [][StepOf({"beat"}) =>
          /\ Taken.track \in DOMAIN tracks'
          /\ tracks' = Rebound(tracks, Taken.track,
                               generate_beat(Taken.style, Taken.bars, context.bpm,
                                             44100).seg)]_vars

\* the value of the last Set among cmds[1..k] that supplies field, or default
RECURSIVE LastSupplied(_, _, _, _)
LastSupplied(field, cmds, k, default) ==
    IF k = 0 THEN default
    ELSE IF cmds[k].action = "set" /\ field \in DOMAIN cmds[k] THEN cmds[k][field]
    ELSE LastSupplied(field, cmds, k - 1, default)

\* C5: the context starts as {bpm: 120, key: "C"}; a Set overwrites exactly
\* the fields it supplies and nothing else changes the context: each field is
\* the value of the last Set that supplied it, or its default.
C5_Context ==
    rstate # "idle" =>
        context = [bpm |-> LastSupplied("bpm", commands, Len(commands), 120),
                   key |-> LastSupplied("key", commands, Len(commands), <<"C">>)]

\* a Set with only bpm, then a Set with only key, then another command
C5_Witness ==
    /\ Len(commands) = 3
    /\ DOMAIN commands[1] = {"action", "bpm"}
    /\ DOMAIN commands[2] = {"action", "key"}
    /\ commands[3].action = "loop"
    /\ context = [bpm |-> commands[1].bpm, key |-> commands[2].key]

\* C6: a strict left-to-right fold: a Loop or Beat uses the bpm of the most
\* recent Set with bpm before it (120 if none), a Set leaves the buffers
\* already produced alone, and each effect is applied to the binding the
\* commands before it produced.
C6_Fold ==
    [][/\ (StepOf(LibraryVerbs) /\ Taken.track \in DOMAIN tracks) =>
            tracks'[Taken.track]
              = Transform(Taken, tracks[Taken.track],
                          LastSupplied("bpm", commands, Len(commands), 120))
       /\ StepOf({"beat"}) =>
            /\ Taken.track \in DOMAIN tracks'
            /\ tracks'[Taken.track]
                 = generate_beat(Taken.style, Taken.bars,
                                 LastSupplied("bpm", commands, Len(commands), 120),
                                 44100).seg
       /\ StepOf({"set"}) => tracks' = tracks]_vars

\* the path C7 has a Load read
C7_Path(cmd) ==
    IF cmd.file = <<"u", "p", "l", "o", "a", "d", "e", "d">> /\ uploaded_path # None THEN uploaded_path
    ELSE cmd.file

\* C7: a Load reads uploaded_path when its file is "uploaded" and an
\* uploaded_path was supplied, and its literal file value otherwise; what it
\* reads is bound under its track, replacing a prior binding, all other
\* bindings unchanged.
C7_Load ==
    [][(StepOf({"load"}) /\ C7_Path(Taken) \in DOMAIN files) =>
          /\ rstate' = "loop"
          /\ tracks' = Rebound(tracks, Taken.track, files[C7_Path(Taken)])]_vars

\* track b, bound from x.wav, is bound again from the uploaded file; track a
\* keeps its buffer
C7_Witness ==
    /\ uploaded_path = <<"/", "t", "m", "p", "/", "u", "p", ".", "w", "a", "v">>
    /\ Len(commands) = 3
    /\ commands[1] = [action |-> "load", track |-> <<"a">>, file |-> <<"x", ".", "w", "a", "v">>]
    /\ commands[2] = [action |-> "load", track |-> <<"b">>, file |-> <<"x", ".", "w", "a", "v">>]
    /\ commands[3] = [action |-> "load", track |-> <<"b">>, file |-> <<"u", "p", "l", "o", "a", "d", "e", "d">>]
    /\ tracks[<<"b">>] = InitFiles[<<"/", "t", "m", "p", "/", "u", "p", ".", "w", "a", "v">>]
    /\ tracks[<<"a">>] = InitFiles[<<"x", ".", "w", "a", "v">>]

\* the file of the last Export among cmds[1..k], or None
RECURSIVE LastExport(_, _)
LastExport(cmds, k) ==
    IF k = 0 THEN None
    ELSE IF cmds[k].action = "export" THEN cmds[k].file
    ELSE LastExport(cmds, k - 1)

\* the file system with mix written to path
Written(path, mix) ==
    [p \in DOMAIN InitFiles \cup {path} |-> IF p = path THEN mix ELSE InitFiles[p]]

\* C8 as stated: if an Export was recorded, the mix is written to the recorded
\* path and the path is returned; otherwise the buffer is returned.
C8_AsStated ==
    rstate = "returned" =>
        IF LastExport(commands, Len(commands)) # None
        THEN /\ result = [kind |-> "path",
                          value |-> LastExport(commands, Len(commands))]
             /\ files = Written(LastExport(commands, Len(commands)),
                                Mix(tracks, order))
        ELSE result.kind = "buffer"

\* C8: without preview, a recorded Export has the mix written to its path and
\* the path returned, and no Export has the mix returned; with preview the
\* downsampled mono buffer is returned and nothing is written, whether or not
\* an Export was recorded.
C8_Return ==
    rstate = "returned" =>
        IF preview
        THEN /\ result = [kind |-> "buffer", value |-> Preview(Mix(tracks, order))]
             /\ files = InitFiles
        ELSE IF LastExport(commands, Len(commands)) # None
        THEN /\ result = [kind |-> "path",
                          value |-> LastExport(commands, Len(commands))]
             /\ files = Written(LastExport(commands, Len(commands)),
                                Mix(tracks, order))
        ELSE /\ result = [kind |-> "buffer", value |-> Mix(tracks, order)]
             /\ files = InitFiles

\* a call without preview that recorded an Export and mixed two tracks
C8_Witness ==
    /\ rstate = "returned"
    /\ ~preview
    /\ result = [kind |-> "path", value |-> <<"o", ".", "w", "a", "v">>]
    /\ order = <<<<"a">>, <<"b">>>>
    /\ files[<<"o", ".", "w", "a", "v">>] = overlay(tracks[<<"a">>], tracks[<<"b">>], 0)

\* C9: an Export only records the path: it writes nothing and changes neither
\* the track table nor the context; a file is written only by the return,
\* after every command, so a call that raises has written nothing, and what
\* is written is the mix of the tracks as the commands after the Export left
\* them.
C9_ExportDeferred ==
    [][/\ StepOf({"export"}) =>
            /\ files' = files
            /\ tracks' = tracks
            /\ context' = context
            /\ export_file' = Taken.file
       /\ (files' # files) =>
            /\ rstate = "loop" /\ rstate' = "returned" /\ commands' = commands
            /\ files' = Written(LastExport(commands, Len(commands)),
                                Mix(tracks', order'))
       /\ (rstate' = "raised") => (files' = InitFiles)]_vars

\* an Export, then the Load and the Gain that make the exported mix
C9_Witness ==
    /\ rstate = "returned"
    /\ Len(commands) = 3
    /\ commands[1].action = "export"
    /\ commands[2].action = "load"
    /\ commands[3].action = "gain"
    /\ commands[1].file \in DOMAIN files
    /\ files[commands[1].file] = gain(InitFiles[commands[2].file], commands[3].db)

\* msg is the error of an unknown command, for line
UnknownCommandError(msg, line) == msg = <<"U", "n", "k", "n", "o", "w", "n", " ", "c", "o", "m", "m", "a", "n", "d", ":", " ">> \o line
\* the loop of parse gets to line k: no line before it raises
Reached(lines, k) == \A j \in 1..(k - 1) : parse_line(lines[j]).kind # "raise"
\* line is neither blank nor a comment
NotSkipped(line) == line # <<>> /\ line[1] # "#"

\* C11: a non-blank, non-comment line whose leading token is no known verb
\* makes parse fail with an unknown-command error containing the line, and a
\* line whose leading token is a known verb is never reported as an unknown
\* command.
C11_UnknownCommand ==
    pstage \notin {"idle", "start"} =>
        \A k \in 1..Len(StrippedLines(text)) :
            (Reached(StrippedLines(text), k) /\ NotSkipped(StrippedLines(text)[k])) =>
                IF LeadingToken(StrippedLines(text)[k]) \in KnownVerbs
                THEN ~(/\ ~parsed.ok
                       /\ UnknownCommandError(parsed.msg, StrippedLines(text)[k]))
                ELSE /\ ~parsed.ok
                     /\ UnknownCommandError(parsed.msg, StrippedLines(text)[k])

\* the lines that are neither blank nor comments, in order
NonSkipped(lines) == SelectSeq(lines, NotSkipped)
\* the verb an action value stands for
VerbOf(action) ==
    CASE action = "set" -> <<"s", "e", "t">>
      [] action = "load" -> <<"l", "o", "a", "d">>
      [] action = "loop" -> <<"l", "o", "o", "p">>
      [] action = "gain" -> <<"g", "a", "i", "n">>
      [] action = "fadeIn" -> <<"f", "a", "d", "e", "I", "n">>
      [] action = "fadeOut" -> <<"f", "a", "d", "e", "O", "u", "t">>
      [] action = "slice" -> <<"s", "l", "i", "c", "e">>
      [] action = "reverse" -> <<"r", "e", "v", "e", "r", "s", "e">>
      [] action = "pan" -> <<"p", "a", "n">>
      [] action = "normalize" -> <<"n", "o", "r", "m", "a", "l", "i", "z", "e">>
      [] action = "lowPass" -> <<"l", "o", "w", "P", "a", "s", "s">>
      [] action = "reverb" -> <<"r", "e", "v", "e", "r", "b">>
      [] action = "beat" -> <<"b", "e", "a", "t">>
      [] action = "export" -> <<"e", "x", "p", "o", "r", "t">>

\* C12: parse skips blank lines and lines beginning with #, and maps every
\* other line to one command: for accepted text there are as many commands
\* as non-skipped lines, in line order, the action of the i-th being the verb
\* of the i-th non-skipped line.
C12_OneCommandPerLine ==
    (pstage \notin {"idle", "start"} /\ parsed.ok) =>
        /\ Len(parsed.commands) = Len(NonSkipped(StrippedLines(text)))
        /\ \A i \in 1..Len(parsed.commands) :
              VerbOf(parsed.commands[i].action)
                = LeadingToken(NonSkipped(StrippedLines(text))[i])

\* a comment line and a command line with blanks around it
C12_Witness ==
    /\ pstage = "parsed"
    /\ text = <<"#", " ", "n", "o", "t", "e", "\n", " ", " ", "l", "o", "o", "p", "(", " ", "b", ",", " ", "b", "a", "r", "s", " ", "=", " ", "4", " ", ")", " ", " ">>
    /\ parsed.ok
    /\ parsed.commands = <<[action |-> "loop", track |-> <<"b">>, bars |-> 4]>>

\* C13: from_yaml has an emission case for every action parse can produce:
\* from_yaml(to_yaml(text)) has one line per command of parse(text), in
\* order, each starting with the verb of its command; no command is dropped.
C13_Complete ==
    pstage \in {"emitted", "reparsed"} =>
        /\ Len(splitlines(text2)) = Len(parsed.commands)
        /\ \A i \in 1..Len(parsed.commands) :
              LeadingToken(splitlines(text2)[i]) = VerbOf(parsed.commands[i].action)

\* two commands of verbs that the interpreter has no branch for, emitted
C13_Witness ==
    /\ pstage = "emitted"
    /\ Len(parsed.commands) = 2
    /\ parsed.commands[1].action = "normalize"
    /\ parsed.commands[2].action = "reverse"
    /\ text2 = <<"n", "o", "r", "m", "a", "l", "i", "z", "e", "(", "a", ")", "\n", "r", "e", "v", "e", "r", "s", "e", "(", "a", ")">>

\* the beat lines of the grammar and the commands they stand for
BeatScenarios ==
    {[line |-> <<"b", "e", "a", "t", "(", "d", ",", " ", "s", "t", "y", "l", "e", "=", "\"", "h", "i", "p", "h", "o", "p", "\"", ",", " ", "b", "a", "r", "s", "=", "3", ")">>,
      cmd |-> [action |-> "beat", track |-> <<"d">>, style |-> <<"h", "i", "p", "h", "o", "p">>, bars |-> 3]],
     [line |-> <<"b", "e", "a", "t", "(", "g", ",", " ", "b", "a", "r", "s", "=", "2", ")">>,
      cmd |-> [action |-> "beat", track |-> <<"g">>, style |-> <<"h", "o", "u", "s", "e">>, bars |-> 2]]}

\* C14: parse accepts a beat line: beat(T, style="S", bars=N) yields exactly
\* the command {action: beat, track: T, style: S, bars: N}, and a beat line
\* without style yields style "house".
C14_ParseBeat ==
    pstage \notin {"idle", "start"} =>
        \A s \in BeatScenarios :
            text = s.line => (parsed.ok /\ parsed.commands = <<s.cmd>>)

\* one line in canonical form for each of pan, normalize and lowPass
CanonicalLines ==
    {<<"p", "a", "n", "(", "a", ",", " ", "a", "m", "o", "u", "n", "t", "=", "-", "0", ".", "2", "5", ")">>, <<"n", "o", "r", "m", "a", "l", "i", "z", "e", "(", "a", ",", " ", "h", "e", "a", "d", "r", "o", "o", "m", "=", "0", ".", "5", ")">>,
     <<"l", "o", "w", "P", "a", "s", "s", "(", "a", ",", " ", "c", "u", "t", "o", "f", "f", "=", "1", "0", "0", "0", ")">>}

\* the command a canonical line stands for
CanonicalCommand(line) ==
    CASE line = <<"p", "a", "n", "(", "a", ",", " ", "a", "m", "o", "u", "n", "t", "=", "-", "0", ".", "2", "5", ")">> ->
           [action |-> "pan", track |-> <<"a">>,
            amount |-> [neg |-> TRUE, m |-> 25, e |-> 2]]
      [] line = <<"n", "o", "r", "m", "a", "l", "i", "z", "e", "(", "a", ",", " ", "h", "e", "a", "d", "r", "o", "o", "m", "=", "0", ".", "5", ")">> ->
           [action |-> "normalize", track |-> <<"a">>,
            headroom |-> [neg |-> FALSE, m |-> 5, e |-> 1]]
      [] line = <<"l", "o", "w", "P", "a", "s", "s", "(", "a", ",", " ", "c", "u", "t", "o", "f", "f", "=", "1", "0", "0", "0", ")">> ->
           [action |-> "lowPass", track |-> <<"a">>, cutoff |-> 1000]

\* the claim of C15 for the canonical lines in ls
CanonicalRoundTrip(ls) ==
    \A line \in ls :
        text = line =>
            /\ pstage \notin {"idle", "start"} =>
                  (parsed.ok /\ parsed.commands = <<CanonicalCommand(line)>>)
            /\ pstage \in {"emitted", "reparsed"} => strip(text2) = text

\* C15: a single line in canonical form for pan, normalize or lowPass parses
\* to exactly one command with that action, the track and the numeric field,
\* and from_yaml(to_yaml(text)), stripped, equals the text byte for byte.
C15_CanonicalRoundTrip == CanonicalRoundTrip(CanonicalLines)

\* the set lines and, for each, the command with exactly the fields it supplies
SetLines ==
    {<<"s", "e", "t", "(", "b", "p", "m", "=", "1", "0", "0", ",", " ", "k", "e", "y", "=", "\"", "C", " ", "m", "i", "n", "o", "r", "\"", ")">>, <<"s", "e", "t", "(", "b", "p", "m", "=", "9", "0", ")">>, <<"s", "e", "t", "(", "k", "e", "y", "=", "\"", "A", "m", "\"", ")">>,
     <<"s", "e", "t", "(", "t", "e", "m", "p", "o", "=", "1", ")">>}
SetCommand(line) ==
    CASE line = <<"s", "e", "t", "(", "b", "p", "m", "=", "1", "0", "0", ",", " ", "k", "e", "y", "=", "\"", "C", " ", "m", "i", "n", "o", "r", "\"", ")">> ->
           [action |-> "set", bpm |-> 100, key |-> <<"C", " ", "m", "i", "n", "o", "r">>]
      [] line = <<"s", "e", "t", "(", "b", "p", "m", "=", "9", "0", ")">> -> [action |-> "set", bpm |-> 90]
      [] line = <<"s", "e", "t", "(", "k", "e", "y", "=", "\"", "A", "m", "\"", ")">> -> [action |-> "set", key |-> <<"A", "m">>]
      [] line = <<"s", "e", "t", "(", "t", "e", "m", "p", "o", "=", "1", ")">> -> [action |-> "set"]

\* C16: a set line yields exactly one command {action: set} with exactly the
\* fields the line supplies: bpm as an integer when bpm=<int> is present, key
\* as the quoted string when key="..." is present, and no other key.
C16_SetFields ==
    (pstage \notin {"idle", "start"} /\ parsed.ok) =>
        /\ Len(parsed.commands) = Len(NonSkipped(StrippedLines(text)))
        /\ \A i \in 1..Len(parsed.commands) :
              NonSkipped(StrippedLines(text))[i] \in SetLines =>
                  parsed.commands[i] = SetCommand(NonSkipped(StrippedLines(text))[i])

\* the scenario, after a set line that supplies bpm only
C16_Witness ==
    /\ pstage = "parsed"
    /\ text = <<"s", "e", "t", "(", "b", "p", "m", "=", "9", "0", ")", "\n", "s", "e", "t", "(", "b", "p", "m", "=", "1", "0", "0", ",", " ", "k", "e", "y", "=", "\"", "C", " ", "m", "i", "n", "o", "r", "\"", ")">>
    /\ parsed.ok
    /\ parsed.commands = <<[action |-> "set", bpm |-> 90],
                           [action |-> "set", bpm |-> 100, key |-> <<"C", " ", "m", "i", "n", "o", "r">>]>>

\* the keys of a verb's mapping, in the one order the verb has
VerbKeyOrder(action) ==
    CASE action = "set" -> <<"action", "bpm", "key">>
      [] action = "load" -> <<"action", "file", "track">>
      [] action = "loop" -> <<"action", "bars", "track">>
      [] action = "gain" -> <<"action", "db", "track">>
      [] action \in {"fadeIn", "fadeOut"} -> <<"action", "seconds", "track">>
      [] action = "slice" -> <<"action", "duration", "start", "track">>
      [] action = "reverse" -> <<"action", "track">>
      [] action \in {"pan", "reverb"} -> <<"action", "amount", "track">>
      [] action = "normalize" -> <<"action", "headroom", "track">>
      [] action = "export" -> <<"action", "file">>
\* the keys of a dumped mapping, in the order they are written
KeysOf(mapping) == [j \in 1..Len(mapping) |-> mapping[j].key]
\* the fields of cmd, in the order of its verb
FieldsInVerbOrder(cmd) ==
    SelectSeq(VerbKeyOrder(cmd.action), LAMBDA k : k \in DOMAIN cmd)

\* C17: to_yaml writes each command as a mapping whose first key is action,
\* followed by the fields of the command in an order that depends on the verb
\* only, whatever the values of the arguments and the place of the command.
C17_KeyOrder ==
    pstage \in {"dumped", "emitted", "reparsed"} =>
        /\ Len(yaml_text) = Len(parsed.commands)
        /\ \A i \in 1..Len(yaml_text) :
              /\ yaml_text[i][1].key = "action"
              /\ KeysOf(yaml_text[i]) = FieldsInVerbOrder(parsed.commands[i])

\* a document of two mappings of one verb at different places, with
\* different fields present
C17_Witness ==
    /\ pstage = "dumped"
    /\ Len(yaml_text) = 2
    /\ KeysOf(yaml_text[1]) = <<"action", "key">>
    /\ KeysOf(yaml_text[2]) = <<"action", "bpm", "key">>

\* the buffer apply_commands has mixed, wherever the call has left it
MixedOutput ==
    IF preview THEN result.value.resampled
    ELSE IF result.kind = "path" THEN files[result.value]
    ELSE result.value

\* the sum of the samples at i of the tracks of ord, a track that has ended
\* adding nothing
RECURSIVE SumAt(_, _, _)
SumAt(trks, ord, i) ==
    IF ord = <<>> THEN 0
    ELSE (IF i <= Len(trks[Head(ord)].samples) THEN trks[Head(ord)].samples[i] ELSE 0)
         + SumAt(trks, Tail(ord), i)

\* C18: the output of apply_commands is the overlay at position 0 of every
\* buffer bound when the fold ends: each output sample is the sum of the
\* samples of all the bound tracks at its place, clipped to 16 bits signed.
C18_MixSum ==
    (rstate = "returned" /\ order # <<>>) =>
        /\ MixedOutput.samples # <<>>
        /\ \A i \in 1..Len(MixedOutput.samples) :
              MixedOutput.samples[i] = Clip(SumAt(tracks, order, i))

\* C19: when no track is bound at the end of the fold (no command, or only
\* Set, Export and effect commands on unbound tracks), the mixed output is
\* silence exactly 1000 ms long.
C19_Silence ==
    (rstate = "returned" /\ DOMAIN tracks = {}) =>
        /\ "silent_ms" \in DOMAIN MixedOutput
        /\ MixedOutput.silent_ms = 1000

\* a call of a Set, an effect on an unbound track and an Export, returned
C19_Witness ==
    /\ rstate = "returned"
    /\ DOMAIN tracks = {}
    /\ Len(commands) = 3
    /\ {commands[i].action : i \in 1..3} = {"set", "gain", "export"}
    /\ ~preview
    /\ result.kind = "path"
    /\ files[result.value] = [frame_rate |-> 11025, channels |-> 1, silent_ms |-> 1000]

\* C20: generate_beat raises its input-validation error for every bars <= 0,
\* whatever the style and the bpm, before any drum voice is synthesized and
\* before the output buffer is allocated.
C20_BarsValidated ==
    (beat_stage \notin {"idle", "called"} /\ beat_call.bars <= 0) =>
        /\ beat_stage = "raised"
        /\ beat_result = Raised("ValueError")
        /\ DOMAIN beat_locals = {}

\* a call with zero bars and a bpm of zero, after its check
C20_Witness ==
    /\ beat_stage = "raised"
    /\ beat_call.bars = 0
    /\ beat_call.bpm = 0
    /\ beat_call.style = "trap"
    /\ beat_result = Raised("ValueError")
    /\ DOMAIN beat_locals = {}

\* floor(60000 / bpm * 4 * bars) of the call
BeatTotalMs == TruncDiv(240000 * beat_call.bars, beat_call.bpm)
\* iteration n of the nested loops is at an active step
ActiveAt(n) ==
    beat_pattern(beat_call.style)[Instruments[(n \div (16 * beat_call.bars)) + 1]]
                                 [(n % 16) + 1] = 1
\* the overlay position of iteration n
PositionAt(n) == beat_position((n \div 16) % beat_call.bars, n % 16, beat_call.bpm)
\* the returned buffer is within 20 ms of floor(60000 / bpm * 4 * bars)
BeatLengthClose ==
    beat_stage = "returned" =>
        /\ beat_result.ok
        /\ len_ms(beat_result.seg) - BeatTotalMs \in (0 - 20)..20

\* C21 as stated: for bars >= 1 and bpm >= 1 the returned buffer is within
\* 20 ms of floor(60000 / bpm * 4 * bars), and every overlay position of an
\* active step is in [0, floor(bar_ms * bars)).
C21_AsStated ==
    beat_stage \in {"loops", "returned"} =>
        /\ BeatLengthClose
        /\ \A n \in 0..(beat_n - 1) :
              ActiveAt(n) => PositionAt(n) \in 0..(BeatTotalMs - 1)

\* C21, amended: for bars >= 1 and bpm >= 1 the returned buffer is within
\* 20 ms of floor(60000 / bpm * 4 * bars), and every overlay position of an
\* active step is in [0, floor(bar_ms * bars)], inside the buffer of
\* floor(bar_ms * bars) + 5 ms; it is below floor(bar_ms * bars) when a step
\* is at least 1 ms long (bpm <= 15000).
C21_LengthAndPositions ==
    beat_stage \in {"loops", "returned"} =>
        /\ BeatLengthClose
        /\ \A n \in 0..(beat_n - 1) :
              ActiveAt(n) =>
                  /\ PositionAt(n) \in 0..BeatTotalMs
                  /\ beat_call.bpm <= 15000 => PositionAt(n) < BeatTotalMs

\* a beat of one bar at 50000 bpm, returned: the hat of the last step is
\* overlaid at 4 ms, floor(bar_ms * bars) being 4
C21_Witness ==
    /\ beat_stage = "returned"
    /\ beat_call.bars = 1
    /\ beat_call.bpm = 50000
    /\ beat_n = 48
    /\ ActiveAt(47)
    /\ PositionAt(47) = 4
    /\ len_ms(beat_result.seg) = 9

\* the segment the last call was given, and the one it returned
LastIn == fx_heap[fx_last.input]
LastOut == fx_heap[fx_last.out]

\* C22: for a segment that is not empty, bars >= 0 and bpm >= 1,
\* loop(buf, bars, bpm) returns buf tiled end to end and cut, of a duration
\* within one sample period of bar_ms * bars (bar_ms = 60000 / bpm * 4): it
\* is never short of the target for want of repetitions.  With the duration
\* frame_count / frame_rate, the difference is at most 1 / frame_rate when
\* |frame_count * bpm - 240 * bars * frame_rate| <= bpm.
C22_LoopDuration ==
    (fx_last.op = "loop" /\ LastIn.samples # <<>>) =>
        /\ fx_last.ok
        /\ \A i \in 1..Len(LastOut.samples) :
              LastOut.samples[i] = LastIn.samples[((i - 1) % Len(LastIn.samples)) + 1]
        /\ frame_count(LastOut) * fx_last.b - 240 * fx_last.a * LastOut.frame_rate
              \in (0 - fx_last.b)..fx_last.b

\* the call run made alone, on the file system the calls start from
RECURSIVE RunToEnd(_)
RunToEnd(run) ==
    IF run.state # "loop" THEN run
    ELSE IF run.pc > Len(run.commands) THEN run_return(run)
    ELSE RunToEnd(run_command(run, InitFiles))
Alone(run) ==
    RunToEnd(run_call(NotRun([commands |-> run.commands,
                              uploaded_path |-> run.uploaded_path,
                              preview |-> run.preview]), {}))
\* the call r has ended as it ends alone
EndsAsAlone(r) ==
    /\ runs[r].state = Alone(runs[r]).state
    /\ runs[r].context = Alone(runs[r]).context
    /\ runs[r].tracks = Alone(runs[r]).tracks
    /\ runs[r].order = Alone(runs[r]).order
    /\ runs[r].result = Alone(runs[r]).result
\* the paths the commands of a call load from, and those they export to
LoadedPaths(run) ==
    {load_path(run.commands[i], run.uploaded_path) :
        i \in {i \in 1..Len(run.commands) : run.commands[i].action = "load"}}
ExportedPaths(run) ==
    {run.commands[i].file :
        i \in {i \in 1..Len(run.commands) : run.commands[i].action = "export"}}
\* no other call exports to a path that r loads from
ReadsNoExport(r) ==
    \A q \in DOMAIN runs \ {r} :
        LoadedPaths(runs[r]) \cap ExportedPaths(runs[q]) = {}

\* C23 as stated: whatever the interleaving of the commands of the calls, and
\* whatever calls were made before, each call ends with the context, the
\* track table and the result it has when it is made alone.
C23_AsStated ==
    \A r \in DOMAIN runs :
        runs[r].state \in {"returned", "raised"} => EndsAsAlone(r)

\* C23, amended: the context, the track table and the export path are locals
\* of a call, and the calls share the file system only: whatever the
\* interleaving, a call ends as it does alone when no other call exports to
\* a path it loads from.
C23_Isolated ==
    \A r \in DOMAIN runs :
        (runs[r].state \in {"returned", "raised"} /\ ReadsNoExport(r)) =>
            EndsAsAlone(r)

\* the first call has returned its looped track while the second, called
\* and having set its own key, is still in its for loop
C23_Witness ==
    /\ runs[1].state = "returned"
    /\ runs[1].context = [bpm |-> 2400, key |-> <<"C">>]
    /\ DOMAIN runs[1].tracks = {<<"a">>}
    /\ runs[2].state = "loop"
    /\ runs[2].pc = 3
    /\ runs[2].context = [bpm |-> 120, key |-> <<"A", "m">>]
    /\ ReadsNoExport(1)

\* C24: every transform of the library (loop, gain, fade_in, fade_out,
\* slice_segment, reverse, pan, normalize, reverb) returns a new buffer and
\* leaves the samples, the frame rate and the channel count of its input as
\* they were: a buffer held elsewhere is not changed by a call.
C24_CopyOnTransform ==
    [][fx_calls' = fx_calls + 1 =>
          /\ \A i \in DOMAIN fx_heap : fx_heap'[i] = fx_heap[i]
          /\ fx_last'.ok =>
                /\ fx_last'.out \notin DOMAIN fx_heap
                /\ DOMAIN fx_heap' = DOMAIN fx_heap \cup {fx_last'.out}]_vars

\* a reverse and then a reverb of the segment the caller started with, which
\* is still as it was
C24_Witness ==
    /\ fx_calls = 2
    /\ Len(fx_heap) = 3
    /\ fx_last.op = "reverb"
    /\ fx_last.input = 1
    /\ fx_last.ok
    /\ fx_last.out = 3
    /\ fx_heap[1] = Seg(100, 1, <<1000, 0 - 2000, 3000, 0 - 4000>>)
    /\ fx_heap[2] = Seg(100, 1, <<0 - 4000, 3000, 0 - 2000, 1000>>)
    /\ fx_heap[3] # fx_heap[1]

\* tap i at sample k of the segment seg, times 12 * 10^e: the sample i base
\* delays back, times amount / (i + 1); nothing when the delay of the tap is
\* not shorter than the segment
BaseDelay(seg) == (3 * seg.frame_rate) \div 100
Tap(seg, k, i, amount) ==
    IF BaseDelay(seg) * i < Len(seg.samples) /\ k - BaseDelay(seg) * i >= 1
    THEN (seg.samples[k - BaseDelay(seg) * i] * amount.m * 12) \div (i + 1)
    ELSE 0
\* the original plus the three taps at sample k, times 12 * 10^e
WetSum(seg, k, amount) ==
    seg.samples[k] * 12 * Pow10(amount.e)
    + Tap(seg, k, 1, amount) + Tap(seg, k, 2, amount) + Tap(seg, k, 3, amount)
\* v is the 16-bit value of num / den: the bound when num / den is beyond it,
\* and less than 1 away from num / den otherwise
ClippedValue(v, num, den) ==
    IF num >= 32767 * den THEN v = 32767
    ELSE IF num <= (0 - 32768) * den THEN v = 0 - 32768
    ELSE v * den - num \in (1 - den)..(den - 1)

\* C25: reverb(buf, amount) has as many samples as buf; each is the original
\* plus three delayed copies, tap i (i = 1..3) delayed by i times the base
\* delay int(0.03 * frame_rate) and attenuated by amount / (i + 1), clipped
\* into [-32768, 32767]; a tap whose delay is not shorter than the buffer
\* adds nothing.
C25_Reverb ==
    (fx_last.op = "reverb") =>
        /\ fx_last.ok
        /\ Len(LastOut.samples) = Len(LastIn.samples)
        /\ LastOut.frame_rate = LastIn.frame_rate
        /\ LastOut.channels = LastIn.channels
        /\ \A k \in 1..Len(LastIn.samples) :
              ClippedValue(LastOut.samples[k], WetSum(LastIn, k, fx_last.a),
                           12 * Pow10(fx_last.a.e))

\* the reverb of the loud segment: its fourth sample, 30000 plus a quarter of
\* 30000, is clipped, and its last has all three taps
C25_Witness ==
    /\ fx_calls = 1
    /\ fx_last.op = "reverb"
    /\ fx_last.a = [neg |-> FALSE, m |-> 5, e |-> 1]
    /\ Len(LastIn.samples) = 10
    /\ LastIn.samples[4] = 30000
    /\ LastOut.samples[4] = 32767
    /\ LastOut.samples[10] = 0 - 24018

\* the peaks that are within 0.1 dB of headroom dB below full scale, 32768:
\* from 32768 * 10 ** (-(headroom + 0.1) / 20) to
\* 32768 * 10 ** (-(headroom - 0.1) / 20), full scale at most
PeakRange(headroom) ==
    CASE headroom = [neg |-> FALSE, m |-> 0, e |-> 0] -> 32393..32768
      [] headroom = [neg |-> FALSE, m |-> 5, e |-> 1] -> 30581..31293

\* C26: normalize(buf, headroom) scales a buffer that is not silent so that
\* its peak is headroom dB below 0 dBFS; with headroom 0.0 the peak of the
\* result is 0 dBFS within 0.1 dB.
C26_NormalizePeak ==
    (fx_last.op = "normalize") =>
        /\ fx_last.ok
        /\ Len(LastOut.samples) = Len(LastIn.samples)
        /\ seg_max(LastOut) \in PeakRange(fx_last.a)
        /\ \A k \in 1..Len(LastIn.samples) :
              /\ LastIn.samples[k] >= 0 => LastOut.samples[k] >= 0
              /\ LastIn.samples[k] <= 0 => LastOut.samples[k] <= 0

\* the 40 ms segment, of peak 4000, normalized with a headroom of 0.5 dB
C26_Witness ==
    /\ fx_calls = 1
    /\ fx_last.op = "normalize"
    /\ fx_last.a = [neg |-> FALSE, m |-> 5, e |-> 1]
    /\ seg_max(LastIn) = 4000
    /\ seg_max(LastOut) = 30932

\* C27: with preview, apply_commands returns a buffer at 22050 Hz, mono, and
\* writes no file, whether or not an Export was recorded; a file is written
\* only without preview and with an Export recorded, and then to the path of
\* the last Export command.
C27_PreviewNeverWrites ==
    /\ (rstate = "returned" /\ preview) =>
          /\ result.kind = "buffer"
          /\ result.value.frame_rate = 22050
          /\ result.value.channels = 1
          /\ files = InitFiles
    /\ (rstate # "idle" /\ files # InitFiles) =>
          /\ rstate = "returned"
          /\ ~preview
          /\ LastExport(commands, Len(commands)) # None
          /\ DOMAIN files = DOMAIN InitFiles \cup {LastExport(commands, Len(commands))}
          /\ \A p \in DOMAIN InitFiles \ {LastExport(commands, Len(commands))} :
                files[p] = InitFiles[p]

\* a preview that has returned after two Export commands and a Load
C27_Witness ==
    /\ rstate = "returned"
    /\ preview
    /\ Len(commands) = 3
    /\ commands[1].action = "export"
    /\ commands[2].action = "load"
    /\ commands[3].action = "export"
    /\ result.kind = "buffer"
    /\ result.value.frame_rate = 22050
    /\ files = InitFiles

\* the track of the first Load among cmds[k..], or None
RECURSIVE FirstLoaded(_, _)
FirstLoaded(cmds, k) ==
    IF k > Len(cmds) THEN None
    ELSE IF cmds[k].action = "load" THEN cmds[k].track
    ELSE FirstLoaded(cmds, k + 1)

\* the track table with every track but first cut to n samples
TruncatedTo(trks, first, n) ==
    [t \in DOMAIN trks |->
        IF t = first THEN trks[t]
        ELSE Seg(trks[t].frame_rate, trks[t].channels,
                 SubSeq(trks[t].samples, 1, Min({n, Len(trks[t].samples)})))]

\* C28: the mixed output has the length of the track whose name was bound
\* first, a name bound again keeping its place; the tracks bound later are
\* overlaid onto it and cut to that length, so the mix is never longer than
\* the first-bound track.
C28_FirstTrackLength ==
    (rstate = "returned" /\ FirstLoaded(commands, 1) # None) =>
        /\ order # <<>>
        /\ order[1] = FirstLoaded(commands, 1)
        /\ MixedOutput.frame_rate = tracks[FirstLoaded(commands, 1)].frame_rate
        /\ Len(MixedOutput.samples)
              = Len(tracks[FirstLoaded(commands, 1)].samples)
        /\ MixedOutput
              = Mix(TruncatedTo(tracks, FirstLoaded(commands, 1),
                                Len(tracks[FirstLoaded(commands, 1)].samples)),
                    order)

\* track c of three samples is bound first and bound again last, track a of
\* four samples between the two: the mix has three samples
C28_Witness ==
    /\ rstate = "returned"
    /\ Len(commands) = 3
    /\ commands[1].action = "load" /\ commands[1].track = <<"c">>
    /\ commands[2].action = "load" /\ commands[2].track = <<"a">>
    /\ commands[3].action = "load" /\ commands[3].track = <<"c">>
    /\ commands[2].file = <<"x", ".", "w", "a", "v">>
    /\ order = <<<<"c">>, <<"a">>>>
    /\ Len(tracks[<<"a">>].samples) = 4
    /\ Len(MixedOutput.samples) = 3

\* C29: export_fn returns (None, recipe, path), path being the path of a
\* file apply_commands wrote, or (None, "Error: ...", None) on an error of
\* parse or of apply_commands; the third output is never a value that is
\* not a path.
C29_ExportShapes ==
    ui_stage = "returned" =>
        /\ ui_out.audio = NoResult
        /\ \/ /\ ui_out.text = ui_call.recipe
              /\ ui_out.file.kind = "path"
              /\ ui_out.file.value \in DOMAIN ui_disk
              /\ ui_out.file.value \notin DOMAIN InitFiles
           \/ /\ startswith(ui_out.text, <<"E", "r", "r", "o", "r", ":", " ">>)
              /\ ui_out.file = NoResult

\* the list the history state holds
History == hist_heap[history_state]

\* C30: after any sequence of Preview and Export actions the history holds at
\* most MAX_HISTORY entries, newest first: an action puts exactly one entry
\* in front, keeps the order of the entries there were, drops only the oldest
\* ones beyond the limit, and leaves the list it was given as it was.
C30_History ==
    [][hist_n' = hist_n + 1 =>
          /\ Len(History') = Min({Len(History) + 1, MAX_HISTORY})
          /\ History'[1].action \in {"Previewed", "Exported"}
          /\ \A i \in 2..Len(History') : History'[i] = History[i - 1]
          /\ history_state' # history_state
          /\ \A o \in DOMAIN hist_heap : hist_heap'[o] = hist_heap[o]]_vars

\* the seventh action, an Export after six Previews: the history holds six
\* entries, the Export first, and the first Preview is dropped
C30_Witness ==
    /\ hist_n = 7
    /\ Len(History) = MAX_HISTORY
    /\ History[1].action = "Exported"
    /\ History[1].title = <<"U", "n", "t", "i", "t", "l", "e", "d", " ", "m", "i", "x">>
    /\ History[1].duration = <<"1", "6", ".", "0", "s">>
    /\ \A i \in 2..MAX_HISTORY : History[i].action = "Previewed"
    /\ History[MAX_HISTORY].title = <<"d", "u", "s", "k">>
    /\ out_dir = {<<"o", "u", "t", "/", "s", "y", "n", "t", "h", "t", "a", "x", "-", "m", "i", "x", ".", "w", "a", "v">>}

====
